---- MODULE Spec2Model ----
(***************************************************************************)
(* csv2dashboard: the analytical pipeline of the csvdash package.          *)
(*   data_loader.infer_types      column-type inference                    *)
(*   filters.apply_filters        multi-predicate row filtering            *)
(*   analysis.summaries_and_figs  per-type summaries and chart series      *)
(*   ui.launch_ui                 the dashboard and its change events      *)
(*   export.export_html           the static report                        *)
(*   utils.validate_file_path     the file name check                      *)
(* A DataFrame is a record [columns, dtype, rows]; rows carry their index  *)
(* labels and one cell per column.  Strings are tuples of one-character    *)
(* strings so that substring search and date parsing are computed.  The    *)
(* TypeMap of a session is the one infer_types gives for the loaded table; *)
(* SpecMap calls the two functions with other TypeMaps as well.            *)
(***************************************************************************)
EXTENDS Integers, Sequences, FiniteSets, TLC

VARIABLES df, loaded, types, args, result, pc, summaries, widgets, view, report

vars == <<df, loaded, types, args, result, pc, summaries, widgets, view, report>>

(***************************************************************************)
(* Bounds of the explored inputs.                                          *)
(***************************************************************************)
MaxRows == 2

(***************************************************************************)
(* Cells.  k is "nan" (missing), "num" or "str".                           *)
(***************************************************************************)
NaN == [k |-> "nan", n |-> 0, s |-> <<>>]

Num(v) == [k |-> "num", n |-> v, s |-> <<>>]

Str(t) == [k |-> "str", n |-> 0, s |-> t]

\* a value of a bool column
Bool(b) == [k |-> "bool", n |-> IF b THEN 1 ELSE 0, s |-> <<>>]

IsNa(c) == c.k = "nan"

None == "None"

(***************************************************************************)
(* Characters and strings.                                                 *)
(***************************************************************************)
UpperChars == <<"A","B","C","D","E","F","G","H","I","J","K","L","M",
                "N","O","P","Q","R","S","T","U","V","W","X","Y","Z">>

LowerChars == <<"a","b","c","d","e","f","g","h","i","j","k","l","m",
                "n","o","p","q","r","s","t","u","v","w","x","y","z">>

\* one character folded as re.IGNORECASE folds it
Fold(c) ==
    IF \E i \in 1..26 : UpperChars[i] = c
    THEN LowerChars[CHOOSE i \in 1..26 : UpperChars[i] = c]
    ELSE c

\* str.strip() leaves something
NonBlank(q) == \E i \in 1..Len(q) : q[i] /= " "

\* re.compile(pat) fails: an unbalanced group
BadPattern(q) ==
    \E i \in 1..Len(q) : q[i] = "(" /\ ~(\E j \in (i+1)..Len(q) : q[j] = ")")

\* re.search(pat, s, re.IGNORECASE) for patterns of literals and "."
ReSearch(q, s) ==
    \E i \in 0..(Len(s) - Len(q)) :
        \A j \in 1..Len(q) : q[j] = "." \/ Fold(q[j]) = Fold(s[i + j])

\* Series.astype(str): a missing cell becomes the text "nan"
AsTypeStr(c) ==
    IF c.k = "nan" THEN <<"n","a","n">>
    ELSE IF c.k = "str" THEN c.s
    ELSE <<"#">>      \* a number; the object columns here hold text or NaN

\* Series.str.contains(pat, case=False, na=False) on one cell of astype(str)
StrContains(c, q) == ReSearch(q, AsTypeStr(c))

(***************************************************************************)
(* Dates.  The parser accepts the ISO form YYYY-MM-DD.                     *)
(***************************************************************************)
Digits == <<"0","1","2","3","4","5","6","7","8","9">>

IsDigit(c) == \E i \in 1..10 : Digits[i] = c

DigitVal(c) == (CHOOSE i \in 1..10 : Digits[i] = c) - 1

DaysIn(m) == IF m = 2 THEN 29 ELSE IF m \in {4, 6, 9, 11} THEN 30 ELSE 31

DateYear(t) == DigitVal(t[1]) * 1000 + DigitVal(t[2]) * 100 + DigitVal(t[3]) * 10 + DigitVal(t[4])

DateMonth(t) == DigitVal(t[6]) * 10 + DigitVal(t[7])

DateDay(t) == DigitVal(t[9]) * 10 + DigitVal(t[10])

\* pd.to_datetime(text) succeeds
ParsesText(t) ==
    /\ Len(t) = 10
    /\ t[5] = "-"
    /\ t[8] = "-"
    /\ \A i \in {1, 2, 3, 4, 6, 7, 9, 10} : IsDigit(t[i])
    /\ DateMonth(t) \in 1..12
    /\ DateDay(t) \in 1..DaysIn(DateMonth(t))

\* the Timestamp as a number that orders as the calendar does
ToDatetime(t) == (DateYear(t) * 12 + (DateMonth(t) - 1)) * 31 + (DateDay(t) - 1)

\* a cell of an object column parses (a missing cell becomes NaT)
ParsesCell(c) == c.k = "nan" \/ (c.k = "str" /\ ParsesText(c.s))

(***************************************************************************)
(* DataFrames.  rows is the table run-length encoded: a run stands for     *)
(* count consecutive rows that hold the same cells, labelled               *)
(* first .. first+count-1.  A row-wise test gives one answer per run.      *)
(***************************************************************************)
Range(f) == {f[i] : i \in DOMAIN f}

RECURSIVE RowCount(_)
RowCount(runs) == IF runs = <<>> THEN 0 ELSE Head(runs).count + RowCount(Tail(runs))

\* len(df)
Len0(d) == RowCount(d.rows)

HasColumn(d, col) == col \in Range(d.columns)

\* DataFrame(data): rows labelled by a RangeIndex 0..n-1
MakeFrame(columns, dtype, data) ==
    [columns |-> columns,
     dtype   |-> dtype,
     rows    |-> [i \in 1..Len(data) |->
                    [first |-> RowCount(SubSeq(data, 1, i - 1)),
                     count |-> data[i].count,
                     cells |-> data[i].cells]]]

\* the row labels are 0..n-1, those of a RangeIndex
RangeLabelled(d) ==
    \A i \in 1..Len(d.rows) : d.rows[i].first = RowCount(SubSeq(d.rows, 1, i - 1))

\* df[mask]: the rows whose mask entry is true, labels and cells untouched
Take(d, Keep(_)) == [d EXCEPT !.rows = SelectSeq(d.rows, Keep)]

\* df[col].dropna()
DropNa(d, col) == SelectSeq(d.rows, LAMBDA r : ~IsNa(r.cells[col]))

\* Series.head(k): the first k rows
RECURSIVE HeadN(_, _)
HeadN(runs, k) ==
    IF runs = <<>> \/ k <= 0 THEN <<>>
    ELSE IF Head(runs).count >= k THEN <<[Head(runs) EXCEPT !.count = k]>>
    ELSE <<Head(runs)>> \o HeadN(Tail(runs), k - Head(runs).count)

\* df[col].nunique(): distinct non-missing values
NUnique(d, col) ==
    Cardinality({d.rows[i].cells[col] : i \in 1..Len(d.rows)} \ {NaN})

\* df[col].dropna().unique(): the distinct non-missing values
Distinct(d, col) ==
    {d.rows[i].cells[col] : i \in {j \in 1..Len(d.rows) : ~IsNa(d.rows[j].cells[col])}}

(***************************************************************************)
(* data_loader.infer_types                                                 *)
(***************************************************************************)
DATE_SAMPLE == 100

MAX_CATEGORIES == 50

IsNumericDtype(dt) == dt \in {"int64", "float64", "bool"}

\* in place of the sample: the whole column is parsed
SampleParses_whole(d, col) ==
    \A i \in 1..Len(d.rows) : ParsesCell(d.rows[i].cells[col])

\* pd.to_datetime(df[col].dropna().head(100), errors='raise') does not raise
SampleParses(d, col) ==
    LET sample == HeadN(DropNa(d, col), DATE_SAMPLE)
    IN  \A i \in 1..Len(sample) : ParsesCell(sample[i].cells[col])

\* in place of the conjunction: few distinct values or many repeats suffice
InferColumn_or(d, col) ==
    IF d.dtype[col] = "object" /\ SampleParses(d, col) THEN "datetime"
    ELSE IF d.dtype[col] = "bool" THEN "boolean"
    ELSE IF IsNumericDtype(d.dtype[col]) THEN "numeric"
    ELSE IF d.dtype[col] = "object"
         THEN IF NUnique(d, col) <= MAX_CATEGORIES \/ 2 * NUnique(d, col) < Len0(d)
              THEN "categorical"
              ELSE "text"
    ELSE "text"

\* in place of both tests: the limit of 50 alone decides
InferColumn_nohalf(d, col) ==
    IF d.dtype[col] = "object" /\ SampleParses(d, col) THEN "datetime"
    ELSE IF d.dtype[col] = "bool" THEN "boolean"
    ELSE IF IsNumericDtype(d.dtype[col]) THEN "numeric"
    ELSE IF d.dtype[col] = "object"
         THEN IF NUnique(d, col) <= MAX_CATEGORIES THEN "categorical" ELSE "text"
    ELSE "text"

InferColumn(d, col) ==
    IF d.dtype[col] = "object" /\ SampleParses(d, col) THEN "datetime"
    ELSE IF d.dtype[col] = "bool" THEN "boolean"
    ELSE IF IsNumericDtype(d.dtype[col]) THEN "numeric"
    ELSE IF d.dtype[col] = "object"
         THEN IF NUnique(d, col) <= MAX_CATEGORIES /\ 2 * NUnique(d, col) < Len0(d)
              THEN "categorical"
              ELSE "text"
    ELSE "text"

\* in place of the loop over df.columns: only the object columns get an entry
infer_types_objects(d) ==
    LET cols == SelectSeq(d.columns, LAMBDA col : d.dtype[col] = "object")
    IN  [i \in 1..Len(cols) |-> [col |-> cols[i], t |-> InferColumn(d, cols[i])]]

\* the dict, as its items in insertion order
infer_types(d) ==
    [i \in 1..Len(d.columns) |-> [col |-> d.columns[i], t |-> InferColumn(d, d.columns[i])]]

\* types.get(col)
TypeOf(tm, col) ==
    IF \E i \in 1..Len(tm) : tm[i].col = col
    THEN tm[CHOOSE i \in 1..Len(tm) : tm[i].col = col].t
    ELSE None

\* [col for col, t in types.items() if t in kinds]
ColsOfType(tm, kinds) ==
    LET hit == SelectSeq(tm, LAMBDA it : it.t \in kinds)
    IN  [i \in 1..Len(hit) |-> hit[i].col]

(***************************************************************************)
(* filters.apply_filters                                                   *)
(* A call is followed as a record: src is the caller's DataFrame, cur is   *)
(* the local filtered_df, raised tells that an exception left the call.    *)
(***************************************************************************)
ALL == <<"A","l","l">>

NoBound == [some |-> FALSE, v |-> 0]

Bound(v) == [some |-> TRUE, v |-> v]

\* in place of the copy: filtered_df = df.dropna()
CopyFrame_dropna(d) ==
    [raised |-> FALSE, src |-> d,
     cur |-> Take(d, LAMBDA r : \A i \in 1..Len(d.columns) : ~IsNa(r.cells[d.columns[i]]))]

\* filtered_df = df.copy()
CopyFrame(d) == [raised |-> FALSE, src |-> d, cur |-> d]

\* in place of the rebinding: the rows are dropped from the one shared frame
Rebind_inplace(st, d) == [st EXCEPT !.cur = d, !.src = d]

\* filtered_df = filtered_df[mask]: binds the name to a new frame
Rebind(st, d) == [st EXCEPT !.cur = d]

Raise(st) == [st EXCEPT !.raised = TRUE]

\* in place of the or-ed mask: the matches of each column, concatenated
RECURSIVE ConcatHits(_, _, _)
ConcatHits(rows, cols, q) ==
    IF cols = <<>> THEN <<>>
    ELSE SelectSeq(rows, LAMBDA r : StrContains(r.cells[Head(cols)], q))
         \o ConcatHits(rows, Tail(cols), q)

TextStage_concat(st, tm, q) ==
    LET text_cols == ColsOfType(tm, {"text", "categorical"})
    IN  IF st.raised \/ ~NonBlank(q) \/ text_cols = <<>> THEN st
        ELSE IF BadPattern(q) THEN [st EXCEPT !.raised = TRUE]
        ELSE [st EXCEPT !.cur = [st.cur EXCEPT !.rows = ConcatHits(st.cur.rows, text_cols, q)]]

\* in place of the test of text_cols: the all-False mask is applied even
\* when no column is searched
TextStage_nocols(st, tm, q) ==
    LET text_cols == ColsOfType(tm, {"text", "categorical"})
        hit(r) == \E i \in 1..Len(text_cols) : StrContains(r.cells[text_cols[i]], q)
    IN  IF st.raised \/ ~NonBlank(q) THEN st
        ELSE IF \E i \in 1..Len(text_cols) : ~HasColumn(st.cur, text_cols[i]) THEN Raise(st)
        ELSE IF BadPattern(q) THEN Raise(st)
        ELSE IF ~RangeLabelled(st.cur) THEN Raise(st)
        ELSE Rebind(st, Take(st.cur, hit))

\* lines 19-25.  The mask starts all False over the labels 0..n-1 and is
\* or-ed in place with each text column's contains(), which keeps the
\* mask's own labels; filtered_df[mask] then looks every row label up in
\* the mask and raises when one is not there.  df[col] of a column that
\* the frame does not have and a pattern that does not compile raise too.
TextStage(st, tm, q) ==
    LET text_cols == ColsOfType(tm, {"text", "categorical"})
        hit(r) == \E i \in 1..Len(text_cols) : StrContains(r.cells[text_cols[i]], q)
    IN  IF st.raised \/ ~NonBlank(q) \/ text_cols = <<>> THEN st
        ELSE IF \E i \in 1..Len(text_cols) : ~HasColumn(st.cur, text_cols[i]) THEN Raise(st)
        ELSE IF BadPattern(q) THEN Raise(st)
        ELSE IF ~RangeLabelled(st.cur) THEN Raise(st)
        ELSE Rebind(st, Take(st.cur, hit))

\* in place of <= max_val: the upper bound left out of the range
NumItem_open(st, tm, it) ==
    LET inside(r) == /\ r.cells[it.col].k = "num"
                     /\ r.cells[it.col].n >= it.lo.v
                     /\ r.cells[it.col].n < it.hi.v
    IN  IF st.raised THEN st
        ELSE IF ~(HasColumn(st.cur, it.col) /\ TypeOf(tm, it.col) = "numeric") THEN st
        ELSE IF ~(it.lo.some /\ it.hi.some) THEN st
        ELSE [st EXCEPT !.cur = Take(st.cur, inside)]

\* in place of the guard: the column's type is not looked up
NumItem_noguard(st, tm, it) ==
    LET inside(r) == /\ r.cells[it.col].k = "num"
                     /\ r.cells[it.col].n >= it.lo.v
                     /\ r.cells[it.col].n <= it.hi.v
    IN  IF st.raised THEN st
        ELSE IF ~HasColumn(st.cur, it.col) THEN st
        ELSE IF ~(it.lo.some /\ it.hi.some) THEN st
        ELSE IF \E i \in 1..Len(st.cur.rows) : st.cur.rows[i].cells[it.col].k = "str"
             THEN [st EXCEPT !.raised = TRUE]
        ELSE [st EXCEPT !.cur = Take(st.cur, inside)]

\* lines 29-33, one item of num_ranges
NumItem(st, tm, it) ==
    LET inside(r) == /\ r.cells[it.col].k = "num"
                     /\ r.cells[it.col].n >= it.lo.v
                     /\ r.cells[it.col].n <= it.hi.v
    IN  IF st.raised THEN st
        ELSE IF ~(HasColumn(st.cur, it.col) /\ TypeOf(tm, it.col) = "numeric") THEN st
        ELSE IF ~(it.lo.some /\ it.hi.some) THEN st
        ELSE IF \E i \in 1..Len(st.cur.rows) : st.cur.rows[i].cells[it.col].k = "str" THEN Raise(st)
        ELSE Rebind(st, Take(st.cur, inside))

\* in place of try/except: the parse error leaves the call
DateItem_notry(st, tm, it) ==
    LET inside(r) == /\ r.cells[it.col].k = "str"
                     /\ ToDatetime(r.cells[it.col].s) >= ToDatetime(it.start)
                     /\ ToDatetime(r.cells[it.col].s) <= ToDatetime(it.end)
    IN  IF st.raised THEN st
        ELSE IF ~(HasColumn(st.cur, it.col) /\ TypeOf(tm, it.col) = "datetime") THEN st
        ELSE IF it.start = <<>> \/ it.end = <<>> THEN st
        ELSE IF ~ParsesText(it.start) \/ ~ParsesText(it.end) THEN [st EXCEPT !.raised = TRUE]
        ELSE IF \E i \in 1..Len(st.cur.rows) : ~ParsesCell(st.cur.rows[i].cells[it.col])
             THEN [st EXCEPT !.raised = TRUE]
        ELSE [st EXCEPT !.cur = Take(st.cur, inside)]

\* lines 37-47, one item of date_ranges
DateItem(st, tm, it) ==
    LET inside(r) == /\ r.cells[it.col].k = "str"
                     /\ ToDatetime(r.cells[it.col].s) >= ToDatetime(it.start)
                     /\ ToDatetime(r.cells[it.col].s) <= ToDatetime(it.end)
    IN  IF st.raised THEN st
        ELSE IF ~(HasColumn(st.cur, it.col) /\ TypeOf(tm, it.col) = "datetime") THEN st
        ELSE IF it.start = <<>> \/ it.end = <<>> THEN st
        ELSE IF ~ParsesText(it.start) \/ ~ParsesText(it.end) THEN st
        ELSE IF \E i \in 1..Len(st.cur.rows) : ~ParsesCell(st.cur.rows[i].cells[it.col]) THEN st
        ELSE Rebind(st, Take(st.cur, inside))

\* in place of 'All' not in selected_values: selected_values != ['All']
CatItem_onlyall(st, tm, it) ==
    LET member(r) == /\ r.cells[it.col].k = "str"
                     /\ r.cells[it.col].s \in Range(it.sel)
    IN  IF st.raised THEN st
        ELSE IF ~(HasColumn(st.cur, it.col) /\ TypeOf(tm, it.col) = "categorical"
                  /\ it.sel /= <<>>) THEN st
        ELSE IF it.sel = <<ALL>> THEN st
        ELSE [st EXCEPT !.cur = Take(st.cur, member)]

\* lines 51-53, one item of cat_selections
CatItem(st, tm, it) ==
    LET member(r) == /\ r.cells[it.col].k = "str"
                     /\ r.cells[it.col].s \in Range(it.sel)
    IN  IF st.raised THEN st
        ELSE IF ~(HasColumn(st.cur, it.col) /\ TypeOf(tm, it.col) = "categorical"
                  /\ it.sel /= <<>>) THEN st
        ELSE IF ALL \in Range(it.sel) THEN st
        ELSE Rebind(st, Take(st.cur, member))

\* for col, v in d.items(): ...
RECURSIVE ForEach(_, _, _, _)
ForEach(Step(_, _, _), st, tm, items) ==
    IF items = <<>> THEN st
    ELSE ForEach(Step, Step(st, tm, Head(items)), tm, Tail(items))

apply_filters(d, tm, a) ==
    LET s0 == CopyFrame(d)
        s1 == TextStage(s0, tm, a.text_query)
        s2 == ForEach(NumItem, s1, tm, a.num_ranges)
        s3 == ForEach(DateItem, s2, tm, a.date_ranges)
        s4 == ForEach(CatItem, s3, tm, a.cat_selections)
    IN  s4

(***************************************************************************)
(* analysis.summaries_and_figs                                             *)
(* A summary table is the sequence of its rows, a dict of figures the      *)
(* sequence of its items; a figure is the series it plots.  A float that   *)
(* is a quotient is kept as the pair [num, den], den = 0 standing for the  *)
(* nan of 0/0.  Std, Median and P95 of the numeric rows are not modelled.  *)
(***************************************************************************)
DEFAULT_TOP_K == 20

OTHERS == <<"O","t","h","e","r","s">>

Ratio(a, b) == [num |-> a, den |-> b]

\* (df[col].isna().sum() / len(df)) * 100
MissingPct(d, col) == Ratio(100 * (Len0(d) - RowCount(DropNa(d, col))), Len0(d))

RECURSIVE SeriesSum(_, _)
SeriesSum(runs, col) ==
    IF runs = <<>> THEN 0
    ELSE Head(runs).count * Head(runs).cells[col].n + SeriesSum(Tail(runs), col)

SeriesMin(runs, col) ==
    CHOOSE v \in {runs[i].cells[col].n : i \in 1..Len(runs)} :
        \A i \in 1..Len(runs) : v <= runs[i].cells[col].n

SeriesMax(runs, col) ==
    CHOOSE v \in {runs[i].cells[col].n : i \in 1..Len(runs)} :
        \A i \in 1..Len(runs) : v >= runs[i].cells[col].n

\* the bag of the values a histogram bins: value and number of rows
SeriesBag(runs, col) ==
    {[v |-> c.n, rows |-> RowCount(SelectSeq(runs, LAMBDA r : r.cells[col] = c))] :
        c \in {runs[i].cells[col] : i \in 1..Len(runs)}}

\* in place of len(df): the missing cells are counted against the
\* non-missing ones
NumericColumn_nonmissing(d, col) ==
    LET series == DropNa(d, col)
    IN  IF RowCount(series) > 0
        THEN << << [Column  |-> col,
                    Count   |-> RowCount(series),
                    Mean    |-> Ratio(SeriesSum(series, col), RowCount(series)),
                    Min     |-> SeriesMin(series, col),
                    Max     |-> SeriesMax(series, col),
                    Missing |-> Ratio(100 * (Len0(d) - RowCount(series)),
                                      RowCount(series))] >>,
                << [col |-> col, hist |-> SeriesBag(series, col)] >> >>
        ELSE << <<>>, <<>> >>

\* in place of the test len(series) > 0: the empty series gets a row
NumericColumn_nolen(d, col) ==
    LET series == DropNa(d, col)
    IN  << << [Column  |-> col,
               Count   |-> RowCount(series),
               Mean    |-> Ratio(SeriesSum(series, col), RowCount(series)),
               Min     |-> IF series = <<>> THEN NaN ELSE SeriesMin(series, col),
               Max     |-> IF series = <<>> THEN NaN ELSE SeriesMax(series, col),
               Missing |-> MissingPct(d, col)] >>,
           << [col |-> col, hist |-> SeriesBag(series, col)] >> >>

\* lines 26-44, one numeric column: <<stats rows, figs items>>
NumericColumn(d, col) ==
    LET series == DropNa(d, col)
    IN  IF RowCount(series) > 0
        THEN << << [Column  |-> col,
                    Count   |-> RowCount(series),
                    Mean    |-> Ratio(SeriesSum(series, col), RowCount(series)),
                    Min     |-> SeriesMin(series, col),
                    Max     |-> SeriesMax(series, col),
                    Missing |-> MissingPct(d, col)] >>,
                << [col |-> col, hist |-> SeriesBag(series, col)] >> >>
        ELSE << <<>>, <<>> >>

\* the index label a value gets in value_counts(): the string itself, any
\* other value as it is
Label(c) == IF c.k = "str" THEN c.s ELSE c

\* the non-missing values in the order of first appearance, each with its
\* number of rows
RECURSIVE Tally(_, _, _)
Tally(runs, col, acc) ==
    IF runs = <<>> THEN acc
    ELSE LET c == Head(runs).cells[col]
         IN  IF IsNa(c) THEN Tally(Tail(runs), col, acc)
             ELSE IF \E i \in 1..Len(acc) : acc[i].label = Label(c)
             THEN Tally(Tail(runs), col,
                        [i \in 1..Len(acc) |->
                            IF acc[i].label = Label(c)
                            THEN [acc[i] EXCEPT !.count = @ + Head(runs).count]
                            ELSE acc[i]])
             ELSE Tally(Tail(runs), col,
                        Append(acc, [label |-> Label(c), count |-> Head(runs).count]))

\* the entry goes behind the entries that are at least as frequent
InsertDesc(sorted, e) ==
    LET k == Cardinality({i \in 1..Len(sorted) : sorted[i].count >= e.count})
    IN  SubSeq(sorted, 1, k) \o <<e>> \o SubSeq(sorted, k + 1, Len(sorted))

RECURSIVE SortDesc(_)
SortDesc(seq) ==
    IF seq = <<>> THEN <<>>
    ELSE InsertDesc(SortDesc(SubSeq(seq, 1, Len(seq) - 1)), seq[Len(seq)])

\* df[col].value_counts(): the non-missing values with their row counts,
\* most frequent first, equal counts in the order of first appearance
ValueCounts(d, col) == SortDesc(Tally(d.rows, col, <<>>))

RECURSIVE CountSum(_)
CountSum(vc) == IF vc = <<>> THEN 0 ELSE Head(vc).count + CountSum(Tail(vc))

\* series[label] = value: the entry of that label is overwritten, a new
\* label is appended
SetItem(series, label, value) ==
    IF \E i \in 1..Len(series) : series[i].label = label
    THEN [i \in 1..Len(series) |->
            IF series[i].label = label THEN [series[i] EXCEPT !.count = value]
            ELSE series[i]]
    ELSE Append(series, [label |-> label, count |-> value])

\* lines 54-78, one categorical column: <<stats rows, figs items>>
CategoricalColumn(d, col, topk) ==
    LET value_counts == ValueCounts(d, col)
        top_values   == SubSeq(value_counts, 1, IF Len(value_counts) < topk
                                                THEN Len(value_counts) ELSE topk)
        others_count == IF Len(value_counts) > topk
                        THEN CountSum(SubSeq(value_counts, topk + 1, Len(value_counts)))
                        ELSE 0
        stats == [Column            |-> col,
                  Unique_Count      |-> NUnique(d, col),
                  Most_Common       |-> IF Len(value_counts) > 0
                                        THEN value_counts[1].label ELSE None,
                  Most_Common_Count |-> IF Len(value_counts) > 0
                                        THEN value_counts[1].count ELSE 0,
                  Others_Count      |-> others_count,
                  Missing           |-> MissingPct(d, col)]
        fig_data == IF others_count > 0 THEN SetItem(top_values, OTHERS, others_count)
                    ELSE top_values
    IN  << <<stats>>,
           IF Len(top_values) > 0 THEN << [col |-> col, bars |-> fig_data] >> ELSE <<>> >>

\* Timestamp.date() in an f-string: YYYY-MM-DD
FormatDate(n) ==
    LET y == n \div 372
        m == ((n % 372) \div 31) + 1
        dd == (n % 31) + 1
    IN  << Digits[((y \div 1000) % 10) + 1], Digits[((y \div 100) % 10) + 1],
           Digits[((y \div 10) % 10) + 1], Digits[(y % 10) + 1], "-",
           Digits[(m \div 10) + 1], Digits[(m % 10) + 1], "-",
           Digits[(dd \div 10) + 1], Digits[(dd % 10) + 1] >>

\* pd.to_datetime of one value: a string is parsed, a number counts the
\* nanoseconds since 1970-01-01 and stays within that day
EPOCH == <<"1","9","7","0","-","0","1","-","0","1">>

StampOf(c) == IF c.k = "str" THEN ToDatetime(c.s)
              ELSE IF c.k = "ts" THEN c.n
              ELSE ToDatetime(EPOCH)

\* pd.to_datetime accepts the value
Converts(c) == c.k \in {"nan", "num", "ts"} \/ (c.k = "str" /\ ParsesText(c.s))

\* dt_series.dt.date.value_counts().sort_index(): the dates that occur, in
\* ascending order, each with its number of rows
DailyCounts(runs, col) ==
    LET stamp == [i \in 1..Len(runs) |-> StampOf(runs[i].cells[col])]
        dates == Range(stamp)
        cnt   == [x \in dates |->
                     RowCount(SelectSeq([i \in 1..Len(runs) |->
                                            [count |-> runs[i].count, at |-> stamp[i]]],
                                        LAMBDA r : r.at = x))]
        rank  == [x \in dates |-> 1 + Cardinality({y \in dates : y < x})]
    IN  [i \in 1..Cardinality(dates) |->
            LET x == CHOOSE y \in dates : rank[y] = i
            IN  [date |-> FormatDate(x), count |-> cnt[x]]]

\* in place of the try: the values that do not parse become NaT
\* (errors='coerce') and the rest is summarised
DatetimeColumn_coerce(d, col) ==
    LET dt_series    == SelectSeq(d.rows, LAMBDA r : ~IsNa(r.cells[col])
                                                      /\ Converts(r.cells[col]))
        daily_counts == DailyCounts(dt_series, col)
    IN  IF ~HasColumn(d, col) THEN << <<>>, <<>> >>
        ELSE IF RowCount(dt_series) > 0
        THEN << << [Column        |-> col,
                    Date_Range    |-> daily_counts[1].date \o <<" ","t","o"," ">>
                                      \o daily_counts[Len(daily_counts)].date,
                    Total_Records |-> RowCount(dt_series),
                    Missing       |-> MissingPct(d, col)] >>,
                << [col |-> col, line |-> daily_counts] >> >>
        ELSE << <<>>, <<>> >>

\* lines 88-109, one datetime column: <<stats rows, figs items>>; a column
\* the frame does not have makes df[col] raise, a value that does not parse
\* makes pd.to_datetime raise, and the except passes the column
DatetimeColumn(d, col) ==
    LET dt_series    == DropNa(d, col)
        daily_counts == DailyCounts(dt_series, col)
    IN  IF ~HasColumn(d, col) THEN << <<>>, <<>> >>
        ELSE IF \E i \in 1..Len(d.rows) : ~Converts(d.rows[i].cells[col])
        THEN << <<>>, <<>> >>
        ELSE IF RowCount(dt_series) > 0
        THEN << << [Column        |-> col,
                    Date_Range    |-> daily_counts[1].date \o <<" ","t","o"," ">>
                                      \o daily_counts[Len(daily_counts)].date,
                    Total_Records |-> RowCount(dt_series),
                    Missing       |-> MissingPct(d, col)] >>,
                << [col |-> col, line |-> daily_counts] >> >>
        ELSE << <<>>, <<>> >>

\* lines 26 and 31, a numeric column raises: df[col] of a column the frame
\* does not have, series.mean() of strings
NumericRaises(d, col) ==
    \/ ~HasColumn(d, col)
    \/ \E i \in 1..Len(d.rows) : d.rows[i].cells[col].k = "str"

\* line 54, a categorical column raises: df[col] of a column the frame does
\* not have
CategoricalRaises(d, col) == ~HasColumn(d, col)

\* an exception leaves summaries_and_figs: the numeric and the categorical
\* loop have no try, the datetime loop passes every exception
SummariesRaise(d, tm) ==
    \/ \E i \in 1..Len(tm) : tm[i].t = "numeric" /\ NumericRaises(d, tm[i].col)
    \/ \E i \in 1..Len(tm) : tm[i].t = "categorical" /\ CategoricalRaises(d, tm[i].col)

\* the rows, or the figures, of the columns in turn
RECURSIVE Gather(_, _)
Gather(parts, k) ==
    IF parts = <<>> THEN <<>> ELSE Head(parts)[k] \o Gather(Tail(parts), k)

summaries_and_figs(d, tm, topk) ==
    LET numeric_cols  == ColsOfType(tm, {"numeric"})
        cat_cols      == ColsOfType(tm, {"categorical"})
        datetime_cols == ColsOfType(tm, {"datetime"})
        num == [i \in 1..Len(numeric_cols)  |-> NumericColumn(d, numeric_cols[i])]
        cat == [i \in 1..Len(cat_cols)      |-> CategoricalColumn(d, cat_cols[i], topk)]
        dt  == [i \in 1..Len(datetime_cols) |-> DatetimeColumn(d, datetime_cols[i])]
    IN  [numeric_summaries     |-> Gather(num, 1),
         categorical_summaries |-> Gather(cat, 1),
         datetime_summary      |-> Gather(dt, 1),
         figs |-> [numeric     |-> Gather(num, 2),
                   categorical |-> Gather(cat, 2),
                   datetime    |-> Gather(dt, 2)]]

NoSummaries ==
    [numeric_summaries |-> <<>>, categorical_summaries |-> <<>>, datetime_summary |-> <<>>,
     figs |-> [numeric |-> <<>>, categorical |-> <<>>, datetime |-> <<>>]]

(***************************************************************************)
(* The explored inputs.                                                    *)
(***************************************************************************)
Alice == <<"A","l","i","c","e">>

Bob == <<"B","o","b">>

Charlie == <<"C","h","a","r","l","i","e">>

NewYork == <<"N","e","w"," ","Y","o","r","k">>

London == <<"L","o","n","d","o","n">>

Tokyo == <<"T","o","k","y","o">>

Jan02 == <<"2","0","2","4","-","0","1","-","0","2">>

Jan05 == <<"2","0","2","4","-","0","1","-","0","5">>

Jan09 == <<"2","0","2","4","-","0","1","-","0","9">>

TBD == <<"T","B","D">>

\* one row
Row(cells) == [count |-> 1, cells |-> cells]

Cells(name, age, city, joined) ==
    Row([name |-> name, age |-> age, city |-> city, joined |-> joined])

\* the frame of test_installation.test_basic_functionality
SampleFrame ==
    MakeFrame(<<"name", "age", "city">>,
              [name |-> "object", age |-> "int64", city |-> "object"],
              << Row([name |-> Str(Alice),   age |-> Num(25), city |-> Str(NewYork)]),
                 Row([name |-> Str(Bob),     age |-> Num(30), city |-> Str(London)]),
                 Row([name |-> Str(Charlie), age |-> Num(35), city |-> Str(Tokyo)]) >>)

\* rows a loaded table may hold
RowPool ==
    { Cells(Str(Alice),   Num(25), Str(NewYork), Str(Jan02)),
      Cells(Str(Bob),     Num(30), Str(London),  Str(Jan05)),
      Cells(Str(Charlie), Num(35), Str(Tokyo),   Str(TBD)),
      Cells(NaN,          NaN,     Str(London),  NaN),
      Cells(Str(Bob),     Num(40), NaN,          Str(Jan09)) }

\* the bulk of a long table: k equal rows
BulkRow == Cells(Str(Bob), Num(30), Str(London), Str(Jan05))

BulkSizes == {0, DATE_SAMPLE}

\* sizes around the date sample, for the inference runs
SampleEdgeSizes == {DATE_SAMPLE - 2, DATE_SAMPLE - 1, DATE_SAMPLE}

Bulk(k) == IF k = 0 THEN <<>> ELSE <<[BulkRow EXCEPT !.count = k]>>

RECURSIVE SeqsUpTo(_, _)
SeqsUpTo(S, n) ==
    IF n = 0 THEN {<<>>}
    ELSE LET shorter == SeqsUpTo(S, n - 1)
         IN  shorter \cup {Append(t, x) : t \in shorter, x \in S}

TableFrame(data) ==
    MakeFrame(<<"name", "age", "city", "joined">>,
              [name |-> "object", age |-> "float64", city |-> "object", joined |-> "object"],
              data)

Frames ==
    {SampleFrame} \cup
    {TableFrame(Bulk(k) \o t) : k \in BulkSizes, t \in SeqsUpTo(RowPool, MaxRows)}

EdgeFrames ==
    {TableFrame(Bulk(k) \o t) : k \in SampleEdgeSizes, t \in SeqsUpTo(RowPool, MaxRows)}

\* tables whose columns have each storage type: u distinct labels, each on
\* r consecutive rows, then a few rows of KindPool
Tag(i) == <<"v", Digits[(i \div 10) + 1], Digits[(i % 10) + 1]>>

Stamp(t) == [k |-> "ts", n |-> ToDatetime(t), s |-> <<>>]

KindCells(flag, score, label, when) ==
    Row([flag |-> flag, score |-> score, label |-> label, when |-> when])

KindPool ==
    { KindCells(Bool(FALSE), NaN,    NaN,          NaN),
      KindCells(Bool(TRUE),  Num(7), Str(Tag(1)),  Stamp(Jan02)),
      KindCells(Bool(TRUE),  Num(8), Str(Jan05),   Stamp(Jan05)) }

KindSizes == {0, 1, MAX_CATEGORIES - 1, MAX_CATEGORIES, MAX_CATEGORIES + 1}

KindReps == {1, 2, 3}

KindRuns(u, r) ==
    [i \in 1..u |->
        [KindCells(Bool(i % 2 = 0), Num(i), Str(Tag(i)), Stamp(Jan09)) EXCEPT !.count = r]]

KindFrame(data) ==
    MakeFrame(<<"flag", "score", "label", "when">>,
              [flag |-> "bool", score |-> "float64", label |-> "object",
               when |-> "datetime64[ns]"],
              data)

KindFrames ==
    {SampleFrame} \cup
    {KindFrame(KindRuns(u, r) \o t) :
        u \in KindSizes, r \in KindReps, t \in SeqsUpTo(KindPool, MaxRows)}

Queries == { <<" ">>, <<"b","o">>, <<"n","a","n">>, <<"(">> }

NumRangeChoices ==
    { << [col |-> "age",  lo |-> Bound(30), hi |-> Bound(35)] >>,
      << [col |-> "age",  lo |-> NoBound,   hi |-> Bound(35)] >>,
      << [col |-> "name", lo |-> Bound(30), hi |-> Bound(35)] >> }

DateRangeChoices ==
    { << [col |-> "joined", start |-> Jan02, end |-> Jan05] >>,
      << [col |-> "joined", start |-> <<>>,  end |-> Jan05] >>,
      << [col |-> "joined", start |-> TBD,   end |-> Jan05] >>,
      << [col |-> "zip",    start |-> Jan02, end |-> Jan05] >> }

CatChoices ==
    { << [col |-> "city", sel |-> <<London>>] >>,
      << [col |-> "city", sel |-> <<ALL, London>>] >>,
      << [col |-> "city", sel |-> <<>>] >> }

NoArgs == [text_query |-> <<>>, num_ranges |-> <<>>, date_ranges |-> <<>>, cat_selections |-> <<>>]

NoResult == [raised |-> FALSE, out |-> MakeFrame(<<>>, <<>>, <<>>)]

\* before the user interface is built nothing is shown or exported
NoWidgets == [text |-> <<>>, filters |-> <<>>]

NoView ==
    [info |-> [rows |-> 0, of |-> 0, columns |-> 0], figs |-> NoSummaries.figs, csv |-> <<>>]

NoReport == [written |-> FALSE]

\* the part of the state the user interface adds
ui == <<widgets, view, report>>

(***************************************************************************)
(* export.export_html.  The report is kept as what it states: the size of  *)
(* the frame, the filters it lists and the summaries it tabulates.         *)
(***************************************************************************)
\* lines 49-59: the items of the 'Applied Filters' list; date ranges are not
\* listed
AppliedFilters(filter_state) ==
    LET nums == filter_state.num_ranges
        cats == SelectSeq(filter_state.cat_selections,
                          LAMBDA it : it.sel /= <<>> /\ ALL \notin Range(it.sel))
        both == SelectSeq(nums, LAMBDA it : it.lo.some /\ it.hi.some)
    IN  IF filter_state.text_query = <<>> /\ nums = <<>>
           /\ filter_state.date_ranges = <<>> /\ filter_state.cat_selections = <<>>
        THEN [section |-> FALSE, text_query |-> <<>>, num_ranges |-> <<>>,
              cat_selections |-> <<>>]
        ELSE [section |-> TRUE, text_query |-> filter_state.text_query,
              num_ranges |-> both, cat_selections |-> cats]

export_html(df_filtered, tm, filter_state) ==
    [written   |-> TRUE,
     rows      |-> Len0(df_filtered),
     columns   |-> Len(df_filtered.columns),
     applied   |-> AppliedFilters(filter_state),
     summaries |-> summaries_and_figs(df_filtered, tm, DEFAULT_TOP_K)]

(***************************************************************************)
(* ui.create_ui_components, ui.update_dashboard, ui.launch_ui.  A filter   *)
(* component is a record of its kind ("num", "date", "cat"), its column    *)
(* and its value: num for a slider, text for a date box, sel for a         *)
(* dropdown.                                                               *)
(***************************************************************************)
TO == <<" ","t","o"," ">>

\* the column name as an f-string prints it
NameChars ==
    [name   |-> <<"n","a","m","e">>,
     age    |-> <<"a","g","e">>,
     city   |-> <<"c","i","t","y">>,
     joined |-> <<"j","o","i","n","e","d">>]

\* f'num_{col}', f'date_{col}', f'cat_{col}'
StateKey(kind, col) ==
    (IF kind = "num" THEN <<"n","u","m","_">>
     ELSE IF kind = "date" THEN <<"d","a","t","e","_">>
     ELSE <<"c","a","t","_">>) \o NameChars[col]

Component(kind, col, num, text, sel) ==
    [kind |-> kind, col |-> col, num |-> num, text |-> text, sel |-> sel]

NoRange == [lo |-> 0, hi |-> 0]

\* lines 27-42: a slider for each numeric column that has a value
Sliders(d, tm) ==
    LET cols == SelectSeq(ColsOfType(tm, {"numeric"}),
                          LAMBDA col : RowCount(DropNa(d, col)) > 0)
    IN  [i \in 1..Len(cols) |->
            Component("num", cols[i],
                      [lo |-> SeriesMin(DropNa(d, cols[i]), cols[i]),
                       hi |-> SeriesMax(DropNa(d, cols[i]), cols[i])],
                      <<>>, <<>>)]

\* lines 45-63: a text box for each datetime column that parses as a whole
\* and has a value
DateBoxes(d, tm) ==
    LET cols == SelectSeq(ColsOfType(tm, {"datetime"}),
                    LAMBDA col : /\ \A i \in 1..Len(d.rows) : ParsesCell(d.rows[i].cells[col])
                                 /\ RowCount(DropNa(d, col)) > 0)
    IN  [i \in 1..Len(cols) |->
            LET days == DailyCounts(DropNa(d, cols[i]), cols[i])
            IN  Component("date", cols[i], NoRange,
                          days[1].date \o TO \o days[Len(days)].date, <<>>)]

\* lines 66-85: a dropdown for each categorical column, 'All' selected
Dropdowns(d, tm) ==
    LET cols == ColsOfType(tm, {"categorical"})
    IN  [i \in 1..Len(cols) |-> Component("cat", cols[i], NoRange, <<>>, <<ALL>>)]

\* lines 71-76: what a dropdown offers
Choices(d, col) ==
    LET vc == ValueCounts(d, col)
        shown == IF Len(vc) <= 20 THEN vc ELSE SubSeq(vc, 1, 20)
    IN  {ALL} \cup {shown[i].label : i \in 1..Len(shown)}

\* the values of the components after the text search, in the order built
create_ui_components(d, tm) ==
    [text |-> <<>>, filters |-> Sliders(d, tm) \o DateBoxes(d, tm) \o Dropdowns(d, tm)]

\* key in filter_values: of the values only the text of a date box can equal
\* a string
KeyAmong(key, filter_values) ==
    \E i \in 1..Len(filter_values) :
        filter_values[i].kind = "date" /\ filter_values[i].text = key

\* one loop of lines 105-121: the columns whose key is among the values
\* take the values at idx, idx + 1, ...
RECURSIVE Collect(_, _, _, _)
Collect(kind, cols, filter_values, idx) ==
    IF cols = <<>> THEN <<>>
    ELSE IF KeyAmong(StateKey(kind, Head(cols)), filter_values)
         THEN <<[col |-> Head(cols), value |-> filter_values[idx + 1]]>>
              \o Collect(kind, Tail(cols), filter_values, idx + 1)
         ELSE Collect(kind, Tail(cols), filter_values, idx)

\* ' to ' in date_str
HasTo(t) == \E i \in 1..(Len(t) - 3) : SubSeq(t, i, i + 3) = TO

\* date_str.split(' to ') at the first ' to ', both parts stripped
RECURSIVE Strip(_)
Strip(t) ==
    IF t = <<>> THEN t
    ELSE IF Head(t) = " " THEN Strip(Tail(t))
    ELSE IF t[Len(t)] = " " THEN Strip(SubSeq(t, 1, Len(t) - 1))
    ELSE t

SplitTo(t) ==
    LET i == CHOOSE k \in 1..(Len(t) - 3) :
                 /\ SubSeq(t, k, k + 3) = TO
                 /\ \A j \in 1..(k - 1) : SubSeq(t, j, j + 3) /= TO
    IN  [start |-> Strip(SubSeq(t, 1, i - 1)), end |-> Strip(SubSeq(t, i + 4, Len(t)))]

\* lines 95-121: the arguments built for apply_filters
FilterArgs(text_query, filter_values, tm) ==
    LET nums  == Collect("num", ColsOfType(tm, {"numeric"}), filter_values, 0)
        dates == Collect("date", ColsOfType(tm, {"datetime"}), filter_values, Len(nums))
        cats  == Collect("cat", ColsOfType(tm, {"categorical"}), filter_values,
                         Len(nums) + Len(dates))
        ranged == SelectSeq(dates, LAMBDA it : it.value.kind = "date" /\ HasTo(it.value.text))
    IN  [text_query |-> text_query,
         num_ranges |-> [i \in 1..Len(nums) |->
                            [col |-> nums[i].col,
                             lo  |-> Bound(nums[i].value.num.lo),
                             hi  |-> Bound(nums[i].value.num.hi),
                             pair |-> nums[i].value.kind = "num"]],
         date_ranges |-> [i \in 1..Len(ranged) |->
                            [col   |-> ranged[i].col,
                             start |-> SplitTo(ranged[i].value.text).start,
                             end   |-> SplitTo(ranged[i].value.text).end]],
         cat_selections |-> [i \in 1..Len(cats) |->
                            [col |-> cats[i].col, sel |-> cats[i].value.sel]]]

\* to_csv(index=False): the rows without their labels
ToCsv(d) == [i \in 1..Len(d.rows) |-> [count |-> d.rows[i].count, cells |-> d.rows[i].cells]]

\* lines 90-150; a value of num_ranges that is not a pair makes the loop
\* header of filters.py line 32 raise
update_dashboard(text_query, filter_values, d, tm) ==
    LET a  == FilterArgs(text_query, filter_values, tm)
        st == apply_filters(d, tm, a)
        filtered_df == st.cur
        sums == summaries_and_figs(filtered_df, tm, DEFAULT_TOP_K)
    IN  IF Len0(d) = 0 \/ d.columns = <<>>
        THEN [raised |-> FALSE, called |-> FALSE, args |-> NoArgs, src |-> d,
              out |-> NoResult.out, summaries |-> NoSummaries, view |-> NoView]
        ELSE IF (\E i \in 1..Len(a.num_ranges) : ~a.num_ranges[i].pair) \/ st.raised
        THEN [raised |-> TRUE, called |-> TRUE, args |-> a, src |-> st.src,
              out |-> NoResult.out, summaries |-> NoSummaries, view |-> NoView]
        ELSE [raised |-> FALSE, called |-> TRUE, args |-> a, src |-> st.src,
              out |-> filtered_df, summaries |-> sums,
              view |-> [info |-> [rows |-> Len0(filtered_df), of |-> Len0(d),
                                  columns |-> Len(filtered_df.columns)],
                        figs |-> sums.figs,
                        csv  |-> ToCsv(filtered_df)]]

(***************************************************************************)
(* The session: a table is loaded, its types are inferred once, and the    *)
(* holder of df and types calls apply_filters each time a predicate        *)
(* changes.                                                                *)
(***************************************************************************)
Init ==
    /\ df \in Frames
    /\ loaded = df
    /\ types = <<>>
    /\ args = NoArgs
    /\ result = NoResult
    /\ pc = "loaded"
    /\ summaries = NoSummaries
    /\ widgets = NoWidgets
    /\ view = NoView
    /\ report = NoReport

\* types = infer_types(df)
Classify ==
    /\ pc = "loaded"
    /\ types' = infer_types(df)
    /\ pc' = "typed"
    /\ UNCHANGED <<df, loaded, args, result, summaries, ui>>

\* filtered_df = apply_filters(df, types, ...) with the arguments a
Call(a) ==
    LET st == apply_filters(df, types, a)
    IN  /\ pc \in {"typed", "filtered"}
        /\ args' = a
        /\ df' = st.src
        /\ result' = [raised |-> st.raised, out |-> st.cur]
        /\ pc' = "filtered"
        /\ UNCHANGED <<loaded, types, summaries, ui>>

\* every predicate empty, as test_basic_functionality calls it
CallNoFilters == Call(NoArgs)

\* a predicate is added to the ones in force and the call is made again
SetTextQuery ==
    /\ args.text_query = <<>>
    /\ \E q \in Queries : Call([args EXCEPT !.text_query = q])

SetNumRanges ==
    /\ args.num_ranges = <<>>
    /\ \E v \in NumRangeChoices : Call([args EXCEPT !.num_ranges = v])

SetDateRanges ==
    /\ args.date_ranges = <<>>
    /\ \E v \in DateRangeChoices : Call([args EXCEPT !.date_ranges = v])

SetCatSelections ==
    /\ args.cat_selections = <<>>
    /\ \E v \in CatChoices : Call([args EXCEPT !.cat_selections = v])

Next ==
    \/ Classify
    \/ CallNoFilters
    \/ SetTextQuery
    \/ SetNumRanges
    \/ SetDateRanges
    \/ SetCatSelections

Spec == Init /\ [][Next]_vars

(***************************************************************************)
(* Type inference alone, on tables whose length straddles the date sample. *)
(***************************************************************************)
InitInfer ==
    /\ df \in EdgeFrames
    /\ loaded = df
    /\ types = <<>>
    /\ args = NoArgs
    /\ result = NoResult
    /\ pc = "loaded"
    /\ summaries = NoSummaries
    /\ widgets = NoWidgets
    /\ view = NoView
    /\ report = NoReport

NextInfer == Classify

SpecInfer == InitInfer /\ [][NextInfer]_vars

(***************************************************************************)
(* Type inference on tables with a column of each storage type and with    *)
(* distinct-value counts around the category limit.                        *)
(***************************************************************************)
InitKinds ==
    /\ df \in KindFrames
    /\ loaded = df
    /\ types = <<>>
    /\ args = NoArgs
    /\ result = NoResult
    /\ pc = "loaded"
    /\ summaries = NoSummaries
    /\ widgets = NoWidgets
    /\ view = NoView
    /\ report = NoReport

NextKinds == Classify

SpecKinds == InitKinds /\ [][NextKinds]_vars

(***************************************************************************)
(* Filtering followed by summaries_and_figs of the filtered frame, on      *)
(* tables with about DEFAULT_TOP_K distinct cities: u runs of 3 to 5 rows, *)
(* one of the cities being 'Others' when asked, then a few rows of RowPool.*)
(***************************************************************************)
WideSizes == {DEFAULT_TOP_K - 1, DEFAULT_TOP_K + 1}

Wide(u, others) ==
    [i \in 1..u |->
        [Cells(Str(Bob), Num(20 + i),
               IF others /\ i = 2 THEN Str(OTHERS) ELSE Str(Tag(i)),
               IF i % 3 = 0 THEN Str(Jan09) ELSE IF i % 3 = 1 THEN Str(Jan05) ELSE Str(Jan02))
         EXCEPT !.count = 3 + (i % 3)]]

Bulks ==
    {<<>>, Bulk(DATE_SAMPLE)} \cup {Wide(u, o) : u \in WideSizes, o \in BOOLEAN}

SummaryFrames ==
    {SampleFrame} \cup
    {TableFrame(b \o t) : b \in Bulks, t \in SeqsUpTo(RowPool, MaxRows)}

InitSummary ==
    /\ df \in SummaryFrames
    /\ loaded = df
    /\ types = <<>>
    /\ args = NoArgs
    /\ result = NoResult
    /\ pc = "loaded"
    /\ summaries = NoSummaries
    /\ widgets = NoWidgets
    /\ view = NoView
    /\ report = NoReport

\* summaries = summaries_and_figs(filtered_df, types)
Summarise ==
    /\ pc = "filtered"
    /\ ~result.raised
    /\ summaries' = summaries_and_figs(result.out, types, DEFAULT_TOP_K)
    /\ pc' = "summarised"
    /\ UNCHANGED <<df, loaded, types, args, result, ui>>

NextSummary ==
    \/ Classify
    \/ CallNoFilters
    \/ SetNumRanges
    \/ SetCatSelections
    \/ Summarise

SpecSummary == InitSummary /\ [][NextSummary]_vars

(***************************************************************************)
(* The dashboard: launch_ui infers the types and builds the components;    *)
(* every change of a component calls update_dashboard with the values of   *)
(* all components; the export button writes the report.                    *)
(***************************************************************************)
UIFrames ==
    {SampleFrame, TableFrame(<<>>)} \cup
    {TableFrame(Bulk(DATE_SAMPLE) \o t) : t \in SeqsUpTo(RowPool, MaxRows)}

UIQueries == { <<>>, <<"b","o">>, <<"(">> }

SliderChoices == { [lo |-> 30, hi |-> 35] }

DateTexts == { Jan02 \o TO \o Jan05, StateKey("num", "age") }

Selections == { <<ALL>>, <<London>> }

InitUI ==
    /\ df \in UIFrames
    /\ loaded = df
    /\ types = <<>>
    /\ args = NoArgs
    /\ result = NoResult
    /\ pc = "loaded"
    /\ summaries = NoSummaries
    /\ widgets = NoWidgets
    /\ view = NoView
    /\ report = NoReport

\* launch_ui, lines 160-169
Launch ==
    /\ pc = "loaded"
    /\ types' = infer_types(df)
    /\ widgets' = create_ui_components(df, types')
    /\ pc' = "ready"
    /\ UNCHANGED <<df, loaded, args, result, summaries, view, report>>

\* in place of df: the frame of the last update is filtered again
update_all_chained(w) ==
    update_dashboard(w.text, w.filters,
                     IF pc = "shown" /\ ~result.raised THEN result.out ELSE df, types)

\* lines 195-196
update_all(w) == update_dashboard(w.text, w.filters, df, types)

\* a component changes and update_all runs on the values w of all of them;
\* when it raises, what is shown stays
Change(w) ==
    \E r \in {update_all(w)} :
        /\ pc \in {"ready", "shown"}
        /\ widgets' = w
        /\ df' = r.src
        /\ args' = r.args
        /\ result' = [raised |-> r.raised, out |-> r.out]
        /\ summaries' = IF r.raised THEN summaries ELSE r.summaries
        /\ view' = IF r.raised THEN view ELSE r.view
        /\ pc' = "shown"
        /\ UNCHANGED <<loaded, types, report>>

ChangeText ==
    \E q \in UIQueries :
        /\ q /= widgets.text
        /\ Change([widgets EXCEPT !.text = q])

ChangeSlider ==
    \E i \in 1..Len(widgets.filters), v \in SliderChoices :
        /\ widgets.filters[i].kind = "num"
        /\ widgets.filters[i].num /= v
        /\ Change([widgets EXCEPT !.filters[i].num = v])

ChangeDate ==
    \E i \in 1..Len(widgets.filters), t \in DateTexts :
        /\ widgets.filters[i].kind = "date"
        /\ widgets.filters[i].text /= t
        /\ Change([widgets EXCEPT !.filters[i].text = t])

ChangeDropdown ==
    \E i \in 1..Len(widgets.filters), v \in Selections :
        /\ widgets.filters[i].kind = "cat"
        /\ widgets.filters[i].sel /= v
        /\ Range(v) \subseteq Choices(df, widgets.filters[i].col)
        /\ Change([widgets EXCEPT !.filters[i].sel = v])

\* lines 207-219: the text search component's own value is the one it was
\* built with, none
export_current_view ==
    export_html(df, types,
                [text_query |-> <<>>, num_ranges |-> <<>>, date_ranges |-> <<>>,
                 cat_selections |-> <<>>])

\* the export button is clicked
Export ==
    /\ pc \in {"ready", "shown"}
    /\ report' = export_current_view
    /\ UNCHANGED <<df, loaded, types, args, result, pc, summaries, widgets, view>>

NextUI ==
    \/ Launch
    \/ ChangeText
    \/ ChangeSlider
    \/ ChangeDate
    \/ ChangeDropdown
    \/ Export

SpecUI == InitUI /\ [][NextUI]_vars

(***************************************************************************)
(* apply_filters and summaries_and_figs called directly, with a TypeMap    *)
(* that need not be the inferred one: one entry gives its column another   *)
(* type, or one more entry names a column the table does not have.         *)
(***************************************************************************)
GHOST == "ghost"

\* the types infer_types hands out
ColumnTypes == {"numeric", "categorical", "datetime", "text", "boolean"}

MapPool ==
    { Cells(Str(Alice),   Num(25), Str(NewYork), Str(Jan02)),
      Cells(NaN,          Num(35), Str(London),  Str(TBD)),
      Cells(NaN,          NaN,     Str(London),  NaN) }

MapFrames == {TableFrame(t) : t \in SeqsUpTo(MapPool, MaxRows)}

\* predicates on columns of the table and on the column it does not have
MapRanges ==
    [NoArgs EXCEPT
        !.num_ranges     = << [col |-> "age", lo |-> Bound(30), hi |-> Bound(35)],
                              [col |-> GHOST, lo |-> Bound(30), hi |-> Bound(35)] >>,
        !.date_ranges    = << [col |-> "joined", start |-> Jan02, end |-> Jan05],
                              [col |-> GHOST,    start |-> Jan02, end |-> Jan05] >>,
        !.cat_selections = << [col |-> "city", sel |-> <<London>>],
                              [col |-> GHOST,  sel |-> <<London>>] >>]

MapArgs ==
    { NoArgs,
      [NoArgs EXCEPT !.text_query = <<"o">>],
      [NoArgs EXCEPT !.text_query = <<"(">>],
      MapRanges,
      [MapRanges EXCEPT !.text_query = <<"o">>] }

InitMap ==
    /\ df \in MapFrames
    /\ loaded = df
    /\ types = <<>>
    /\ args = NoArgs
    /\ result = NoResult
    /\ pc = "loaded"
    /\ summaries = NoSummaries
    /\ widgets = NoWidgets
    /\ view = NoView
    /\ report = NoReport

\* the caller's TypeMap gives one column another type
Retype ==
    /\ pc = "typed"
    /\ types = infer_types(df)
    /\ \E i \in 1..Len(types) :
           \E t \in ColumnTypes \ {types[i].t} : types' = [types EXCEPT ![i].t = t]
    /\ UNCHANGED <<df, loaded, args, result, pc, summaries, ui>>

\* the caller's TypeMap has an entry for a column that does not exist
Misname ==
    /\ pc = "typed"
    /\ types = infer_types(df)
    /\ \E t \in ColumnTypes : types' = Append(types, [col |-> GHOST, t |-> t])
    /\ UNCHANGED <<df, loaded, args, result, pc, summaries, ui>>

\* filtered_df = apply_filters(df, types, ...), once
FilterMap ==
    /\ pc = "typed"
    /\ \E a \in MapArgs : Call(a)

\* summaries = summaries_and_figs(df, types); an exception leaves nothing
SummariseMap ==
    /\ pc = "typed"
    /\ result' = [result EXCEPT !.raised = SummariesRaise(df, types)]
    /\ summaries' = IF SummariesRaise(df, types) THEN summaries
                    ELSE summaries_and_figs(df, types, DEFAULT_TOP_K)
    /\ pc' = "summarised"
    /\ UNCHANGED <<df, loaded, types, args, ui>>

NextMap ==
    \/ Classify
    \/ Retype
    \/ Misname
    \/ FilterMap
    \/ SummariseMap

SpecMap == InitMap /\ [][NextMap]_vars

(***************************************************************************)
(* Two update_dashboard calls of one session in flight at once, as the     *)
(* event handlers of the interface run them on worker threads.  df and     *)
(* types are the ones launch_ui holds; everything else is local to a call  *)
(* and kept per request: widgets[r] the component values it was called     *)
(* with, args[r] the arguments it built, result[r] its filtered_df,        *)
(* summaries[r] and view[r] what it computed and returned, pc[r] where it  *)
(* is.  A step is the part of a call between two reads of df or types.     *)
(***************************************************************************)
Reqs == {1, 2}

RacePool ==
    { Cells(Str(Alice), Num(25), Str(NewYork), Str(Jan02)),
      Cells(NaN,        NaN,     Str(London),  NaN) }

RaceFrames ==
    {SampleFrame, TableFrame(<<>>)} \cup
    {TableFrame(Bulk(DATE_SAMPLE) \o t) : t \in SeqsUpTo(RacePool, MaxRows)}

\* the component values a request may arrive with
RaceInputs(w) ==
    {[w EXCEPT !.text = q] : q \in UIQueries} \cup
    {[w EXCEPT !.filters = [i \in 1..Len(w.filters) |->
                               IF w.filters[i].kind = "date"
                               THEN [w.filters[i] EXCEPT !.text = StateKey("num", "age")]
                               ELSE w.filters[i]]]}

InitRace ==
    /\ df \in RaceFrames
    /\ loaded = df
    /\ types = infer_types(df)
    /\ args = [r \in Reqs |-> NoArgs]
    /\ result = [r \in Reqs |-> CopyFrame(NoResult.out)]
    /\ pc = [r \in Reqs |-> "idle"]
    /\ summaries = [r \in Reqs |-> NoSummaries]
    /\ widgets = [r \in Reqs |-> NoWidgets]
    /\ view = [r \in Reqs |-> NoView]
    /\ report = NoReport

\* ui.py lines 92-121: the request arrives with its own values; an empty
\* table is answered at once, otherwise the call builds its own dicts
Enter(r) ==
    /\ pc[r] = "idle"
    /\ \E w \in RaceInputs(create_ui_components(df, types)) :
          /\ widgets' = [widgets EXCEPT ![r] = w]
          /\ IF Len0(df) = 0 \/ df.columns = <<>>
             THEN /\ pc' = [pc EXCEPT ![r] = "returned"]
                  /\ args' = args
             ELSE /\ pc' = [pc EXCEPT ![r] = "parsed"]
                  /\ args' = [args EXCEPT ![r] = FilterArgs(w.text, w.filters, types)]
    /\ UNCHANGED <<df, loaded, types, result, summaries, view, report>>

\* in place of the local name: the step keeps its frame in df, the one
\* name all calls see
Advance_shared(r, from, to, st) ==
    /\ pc[r] = from
    /\ result' = [result EXCEPT ![r] = st]
    /\ df' = st.cur
    /\ pc' = [pc EXCEPT ![r] = to]
    /\ UNCHANGED <<loaded, types, args, summaries, widgets, view, report>>

\* a step of apply_filters: the call's own frame becomes st, and df is
\* whatever the step leaves of the frame it was called with
Advance(r, from, to, st) ==
    /\ pc[r] = from
    /\ result' = [result EXCEPT ![r] = st]
    /\ df' = st.src
    /\ pc' = [pc EXCEPT ![r] = to]
    /\ UNCHANGED <<loaded, types, args, summaries, widgets, view, report>>

\* filters.py line 16
CopyStep(r) == Advance(r, "parsed", "copied", CopyFrame(df))

\* filters.py lines 19-25
TextStep(r) ==
    Advance(r, "copied", "searched", TextStage(result[r], types, args[r].text_query))

\* filters.py lines 28-33; a value that is no pair cannot be unpacked
NumStep(r) ==
    Advance(r, "searched", "ranged",
            IF \E i \in 1..Len(args[r].num_ranges) : ~args[r].num_ranges[i].pair
            THEN Raise(result[r])
            ELSE ForEach(NumItem, result[r], types, args[r].num_ranges))

\* filters.py lines 36-47
DateStep(r) ==
    Advance(r, "ranged", "dated", ForEach(DateItem, result[r], types, args[r].date_ranges))

\* filters.py lines 50-55
CatStep(r) ==
    Advance(r, "dated", "filtered", ForEach(CatItem, result[r], types, args[r].cat_selections))

\* ui.py line 127, or the exception of apply_filters leaves the call
SummStep(r) ==
    /\ pc[r] = "filtered"
    /\ IF result[r].raised
       THEN /\ pc' = [pc EXCEPT ![r] = "raised"]
            /\ summaries' = summaries
       ELSE /\ pc' = [pc EXCEPT ![r] = "summarised"]
            /\ summaries' = [summaries EXCEPT
                                ![r] = summaries_and_figs(result[r].cur, types, DEFAULT_TOP_K)]
    /\ UNCHANGED <<df, loaded, types, args, result, widgets, view, report>>

\* ui.py lines 130-150
ReturnStep(r) ==
    /\ pc[r] = "summarised"
    /\ view' = [view EXCEPT
                  ![r] = [info |-> [rows |-> Len0(result[r].cur), of |-> Len0(df),
                                    columns |-> Len(result[r].cur.columns)],
                          figs |-> summaries[r].figs,
                          csv  |-> ToCsv(result[r].cur)]]
    /\ pc' = [pc EXCEPT ![r] = "returned"]
    /\ UNCHANGED <<df, loaded, types, args, result, summaries, widgets, report>>

NextRace ==
    \E r \in Reqs :
        \/ Enter(r)
        \/ CopyStep(r)
        \/ TextStep(r)
        \/ NumStep(r)
        \/ DateStep(r)
        \/ CatStep(r)
        \/ SummStep(r)
        \/ ReturnStep(r)

SpecRace == InitRace /\ [][NextRace]_vars

(***************************************************************************)
(* utils.validate_file_path on paths put together from a directory, a      *)
(* stem and an ending; whether the file exists is the file system's        *)
(* answer.                                                                 *)
(***************************************************************************)
SUPPORTED_EXTENSIONS == { <<".","c","s","v">>, <<".","c","s","v",".","g","z">>, <<".","x","l","s","x">>, <<".","x","l","s">> }

\* file_path.lower()
Lower(t) == [i \in 1..Len(t) |-> Fold(t[i])]

\* str.rfind(c): the last position of c, counted from 1, or 0
RFind(t, c) ==
    IF \E i \in 1..Len(t) : t[i] = c
    THEN CHOOSE i \in 1..Len(t) : t[i] = c /\ \A j \in (i + 1)..Len(t) : t[j] /= c
    ELSE 0

\* os.path.splitext(t)[1]: from the last dot of the file name on, unless
\* only dots come before it in the file name
SplitExt(t) ==
    LET sepIndex == RFind(t, "/")
        dotIndex == RFind(t, ".")
    IN  IF /\ dotIndex > sepIndex
           /\ \E i \in (sepIndex + 1)..(dotIndex - 1) : t[i] /= "."
        THEN SubSeq(t, dotIndex, Len(t))
        ELSE <<>>

\* lines 12-17
validate_file_path(file_path, exists) ==
    IF ~exists THEN FALSE
    ELSE SplitExt(Lower(file_path)) \in SUPPORTED_EXTENSIONS

PathDirs == { <<>>, <<"d","a","t","a","/">>, <<"v","1",".","c","s","v","/">> }

PathStems == { <<"a">>, <<"D","a","t","a">>, <<".">> }

PathEndings ==
    { <<>>,
      <<".","c","s","v">>,
      <<".","C","S","V">>,
      <<".","c","s","v",".","g","z">>,
      <<".","C","s","v",".","G","Z">>,
      <<".","g","z">>,
      <<".","x","l","s","x">>,
      <<".","x","l","s">>,
      <<".","X","L","S">>,
      <<".","t","x","t">>,
      <<".","c","s","v",".">>,
      <<"c","s","v">> }

Paths == {d \o n \o e : d \in PathDirs, n \in PathStems, e \in PathEndings}

InitPath ==
    /\ df = NoResult.out
    /\ loaded = df
    /\ types = <<>>
    /\ \E p \in Paths, e \in BOOLEAN : args = [file_path |-> p, exists |-> e]
    /\ result = NoResult
    /\ pc = "given"
    /\ summaries = NoSummaries
    /\ widgets = NoWidgets
    /\ view = NoView
    /\ report = NoReport

\* validate_file_path(file_path)
Validate ==
    /\ pc = "given"
    /\ result' = [raised |-> FALSE, out |-> validate_file_path(args.file_path, args.exists)]
    /\ pc' = "validated"
    /\ UNCHANGED <<df, loaded, types, args, summaries, ui>>

NextPath == Validate

SpecPath == InitPath /\ [][NextPath]_vars

(***************************************************************************)
(* apply_filters called on its own output: the caller filters a table and  *)
(* passes what it got, with the same TypeMap and the same predicates, to   *)
(* apply_filters once more.                                                *)
(***************************************************************************)
TwiceArgs ==
    { [text_query     |-> q,
       num_ranges     |-> n,
       date_ranges    |-> d,
       cat_selections |-> c] :
        q \in { <<>>, <<"b","o">> },
        n \in { <<>>, << [col |-> "age", lo |-> Bound(30), hi |-> Bound(35)] >> },
        d \in { <<>>, << [col |-> "joined", start |-> Jan02, end |-> Jan02] >> },
        c \in { <<>>, << [col |-> "city", sel |-> <<London>>] >> } }

\* filtered = apply_filters(df, types, ...)
FirstCall ==
    /\ pc = "typed"
    /\ \E a \in TwiceArgs : Call(a)

\* apply_filters(filtered, types, ...) with the same arguments
SecondCall ==
    \E st \in {apply_filters(result.out, types, args)} :
        /\ pc = "filtered"
        /\ ~result.raised
        /\ df' = st.src
        /\ result' = [raised |-> st.raised, out |-> st.cur]
        /\ pc' = "refiltered"
        /\ UNCHANGED <<loaded, types, args, summaries, ui>>

NextTwice ==
    \/ Classify
    \/ FirstCall
    \/ SecondCall

SpecTwice == Init /\ [][NextTwice]_vars

(***************************************************************************)
(* Properties of apply_filters.                                            *)
(***************************************************************************)
RECURSIVE IsSubSeq(_, _)
IsSubSeq(a, b) ==
    IF a = <<>> THEN TRUE
    ELSE IF b = <<>> THEN FALSE
    ELSE IF Head(a) = Head(b) THEN IsSubSeq(Tail(a), Tail(b))
    ELSE IsSubSeq(a, Tail(b))

Returned == pc = "filtered" /\ ~result.raised

OnlyText == args.num_ranges = <<>> /\ args.date_ranges = <<>> /\ args.cat_selections = <<>>

OnlyNum == args.text_query = <<>> /\ args.date_ranges = <<>> /\ args.cat_selections = <<>>

OnlyCat == args.text_query = <<>> /\ args.num_ranges = <<>> /\ args.date_ranges = <<>>

\* C1: the frame apply_filters returns has the input's columns in the input's
\* order, and its rows are a sub-sequence of the input's rows (same labels,
\* same cells, same relative order), so it has at most as many rows.
C1_RowSubset ==
    Returned =>
        /\ result.out.columns = loaded.columns
        /\ IsSubSeq(result.out.rows, loaded.rows)
        /\ Len0(result.out) <= Len0(loaded)

\* C1 witness: a call kept the first and the last row of a table and dropped
\* the one between them.
C1_Witness ==
    /\ Returned
    /\ Len(loaded.rows) = 3
    /\ result.out.rows = <<loaded.rows[1], loaded.rows[3]>>

\* C2: the caller's DataFrame is the loaded table after every call, whatever
\* calls were made before.
C2_SourceUntouched == df = loaded

\* C2 witness: a call returned fewer rows than the table holds.
C2_Witness ==
    /\ Returned
    /\ Len0(result.out) < Len0(loaded)
    /\ df = loaded

\* C3: with an empty query and empty range and selection maps the call
\* returns a frame equal to the input.
C3_Identity ==
    (pc = "filtered" /\ args = NoArgs) => (~result.raised /\ result.out = loaded)

\* C3 witness: the empty call was made on a table that holds a missing cell.
C3_Witness ==
    /\ pc = "filtered"
    /\ args = NoArgs
    /\ \E i \in 1..Len(loaded.rows) : IsNa(loaded.rows[i].cells["name"])
    /\ result.out = loaded

\* the call with one argument replaced
Without(field) ==
    apply_filters(loaded, types, [args EXCEPT ![field] = NoArgs[field]])

\* the rows a single predicate keeps when it is the only one in the call
AloneText == apply_filters(loaded, types, [NoArgs EXCEPT !.text_query = args.text_query])

AloneNum == apply_filters(loaded, types, [NoArgs EXCEPT !.num_ranges = args.num_ranges])

AloneDate == apply_filters(loaded, types, [NoArgs EXCEPT !.date_ranges = args.date_ranges])

AloneCat == apply_filters(loaded, types, [NoArgs EXCEPT !.cat_selections = args.cat_selections])

\* C4: the rows a call keeps are exactly the rows that every predicate of
\* the call keeps when it is evaluated alone on the input table.
C4_Intersection ==
    (Returned /\ ~AloneText.raised) =>
        result.out.rows =
            SelectSeq(loaded.rows,
                      LAMBDA r : /\ r \in Range(AloneText.cur.rows)
                                 /\ r \in Range(AloneNum.cur.rows)
                                 /\ r \in Range(AloneDate.cur.rows)
                                 /\ r \in Range(AloneCat.cur.rows))

\* case-insensitive containment of the query as plain text
ContainsText(t, q) ==
    \E i \in 0..(Len(t) - Len(q)) : \A j \in 1..Len(q) : Fold(q[j]) = Fold(t[i + j])

\* C5: a blank query changes nothing; any other query keeps exactly the rows
\* in which some column typed text or categorical holds a non-missing value
\* that contains the query, letter case ignored.
C5_TextSearch ==
    (Returned /\ OnlyText) =>
           result.out.rows =
              IF ~NonBlank(args.text_query) THEN loaded.rows
              ELSE SelectSeq(loaded.rows,
                     LAMBDA r : \E i \in 1..Len(types) :
                        /\ types[i].t \in {"text", "categorical"}
                        /\ r.cells[types[i].col].k = "str"
                        /\ ContainsText(r.cells[types[i].col].s, args.text_query))

\* the rows of the sample frame
BobRow == [first |-> 1, count |-> 1,
           cells |-> [name |-> Str(Bob), age |-> Num(30), city |-> Str(London)]]

CharlieRow == [first |-> 2, count |-> 1,
               cells |-> [name |-> Str(Charlie), age |-> Num(35), city |-> Str(Tokyo)]]

Age30to35 == << [col |-> "age", lo |-> Bound(30), hi |-> Bound(35)] >>

\* C6: a numeric range changes nothing unless its column is typed numeric and
\* both bounds are given; then exactly the rows with lo <= value <= hi stay
\* and rows with a missing value go.  On the sample frame age in [30, 35]
\* leaves Bob and Charlie, in that order.
C6_NumericRange ==
    (pc = "filtered" /\ OnlyNum /\ args.num_ranges /= <<>>) =>
        LET it == args.num_ranges[1]
        IN  /\ ~result.raised
            /\ result.out.rows =
                  IF TypeOf(types, it.col) = "numeric" /\ it.lo.some /\ it.hi.some
                  THEN SelectSeq(loaded.rows,
                         LAMBDA r : /\ ~IsNa(r.cells[it.col])
                                    /\ it.lo.v <= r.cells[it.col].n
                                    /\ r.cells[it.col].n <= it.hi.v)
                  ELSE loaded.rows
            /\ (loaded = SampleFrame /\ args.num_ranges = Age30to35)
                  => result.out.rows = <<BobRow, CharlieRow>>

\* C6 witness: age in [30, 35] was applied to the sample frame.
C6_Witness ==
    /\ Returned
    /\ OnlyNum
    /\ loaded = SampleFrame
    /\ args.num_ranges = Age30to35
    /\ Len0(result.out) = 2

\* the frame that reaches the date ranges: the text query and the numeric
\* ranges of the call have been applied
ReachesDate ==
    apply_filters(loaded, types,
                  [args EXCEPT !.date_ranges = <<>>, !.cat_selections = <<>>])

InDateRange(c, it) ==
    /\ ~IsNa(c)
    /\ ToDatetime(it.start) <= ToDatetime(c.s)
    /\ ToDatetime(c.s) <= ToDatetime(it.end)

C8_CategoricalIn ==
    (pc = "filtered" /\ OnlyCat /\ args.cat_selections /= <<>>) =>
        LET it == args.cat_selections[1]
        IN  /\ ~result.raised
            /\ result.out.rows =
                  IF \/ TypeOf(types, it.col) /= "categorical"
                     \/ it.sel = <<>>
                     \/ \E i \in 1..Len(it.sel) : it.sel[i] = ALL
                  THEN loaded.rows
                  ELSE SelectSeq(loaded.rows,
                         LAMBDA r : /\ ~IsNa(r.cells[it.col])
                                    /\ \E i \in 1..Len(it.sel) : it.sel[i] = r.cells[it.col].s)

\* C8 witness: 'All' was selected together with London on a categorical
\* column that also holds another city and a missing value; every row stayed.
C8_Witness ==
    /\ Returned
    /\ OnlyCat
    /\ args.cat_selections = << [col |-> "city", sel |-> <<ALL, London>>] >>
    /\ TypeOf(types, "city") = "categorical"
    /\ \E i \in 1..Len(loaded.rows) : loaded.rows[i].cells["city"] = Str(Tokyo)
    /\ \E i \in 1..Len(loaded.rows) : IsNa(loaded.rows[i].cells["city"])
    /\ result.out = loaded

SameAs(st) == result = [raised |-> st.raised, out |-> st.cur]

\* C9: a predicate of a kind other than its column's type, or on a column the
\* table does not have, is ignored: the call gives what it gives without it.
C9_MismatchIgnored ==
    pc = "filtered" =>
        /\ (/\ args.num_ranges /= <<>>
            /\ \/ TypeOf(types, args.num_ranges[1].col) /= "numeric"
               \/ ~HasColumn(loaded, args.num_ranges[1].col))
              => SameAs(Without("num_ranges"))
        /\ (/\ args.date_ranges /= <<>>
            /\ \/ TypeOf(types, args.date_ranges[1].col) /= "datetime"
               \/ ~HasColumn(loaded, args.date_ranges[1].col))
              => SameAs(Without("date_ranges"))
        /\ (/\ args.cat_selections /= <<>>
            /\ \/ TypeOf(types, args.cat_selections[1].col) /= "categorical"
               \/ ~HasColumn(loaded, args.cat_selections[1].col))
              => SameAs(Without("cat_selections"))

\* C9 witness: a numeric range on a text column and a date range on a column
\* the table lacks went with a query that kept some rows and dropped others.
C9_Witness ==
    /\ Returned
    /\ args.num_ranges /= <<>>
    /\ args.num_ranges[1].col = "name"
    /\ TypeOf(types, "name") = "text"
    /\ args.date_ranges /= <<>>
    /\ args.date_ranges[1].col = "zip"
    /\ NonBlank(args.text_query)
    /\ Len(result.out.rows) > 0
    /\ Len(result.out.rows) < Len(loaded.rows)

(***************************************************************************)
(* Properties of infer_types.                                              *)
(***************************************************************************)
\* the non-missing rows of the column above run i
NonMissingBefore(d, col, i) ==
    RowCount(SelectSeq(SubSeq(d.rows, 1, i - 1), LAMBDA r : ~IsNa(r.cells[col])))

\* C10: a column of object storage is datetime exactly when each of its first
\* 100 non-missing values parses as a date; values beyond them do not count.
C10_DatetimeRule ==
    pc = "typed" =>
        \A c \in 1..Len(types) :
            loaded.dtype[types[c].col] = "object" =>
                (types[c].t = "datetime"
                 <=> \A i \in 1..Len(loaded.rows) :
                        (/\ ~IsNa(loaded.rows[i].cells[types[c].col])
                         /\ NonMissingBefore(loaded, types[c].col, i) < DATE_SAMPLE)
                        => ParsesCell(loaded.rows[i].cells[types[c].col]))

\* C10 witness: a column typed datetime holds a value that does not parse,
\* below 100 values that do.
C10_Witness ==
    /\ pc = "typed"
    /\ TypeOf(types, "joined") = "datetime"
    /\ \E i \in 1..Len(loaded.rows) :
          /\ loaded.rows[i].cells["joined"] = Str(TBD)
          /\ NonMissingBefore(loaded, "joined", i) >= DATE_SAMPLE

\* C11: a column that is not datetime is boolean when stored as bool, numeric
\* when stored as a number, and when stored as objects it is categorical
\* exactly when its u distinct values and the n rows satisfy u <= 50 and
\* u < n/2, text otherwise; any other storage is text.  So an object column
\* with u = n or u > 50 is never categorical.
C11_StorageRule ==
    pc = "typed" =>
        \A c \in 1..Len(types) :
            LET col == types[c].col
                t   == types[c].t
                dt  == loaded.dtype[col]
                u   == Cardinality(Distinct(loaded, col))
                n   == Len0(loaded)
            IN  t /= "datetime" =>
                  /\ dt = "bool" => t = "boolean"
                  /\ dt \in {"int64", "float64"} => t = "numeric"
                  /\ dt = "object" =>
                        /\ t \in {"categorical", "text"}
                        /\ t = "categorical" <=> (u <= 50 /\ 2 * u < n)
                        /\ (u = n \/ u > 50) => t /= "categorical"
                  /\ dt \notin {"bool", "int64", "float64", "object"} => t = "text"

\* C11 witness: of one table the bool column is boolean, the float column
\* numeric, the timestamp column text, and the object column, with more than
\* 50 distinct values on more than twice as many rows, text.
C11_Witness ==
    /\ pc = "typed"
    /\ HasColumn(loaded, "label")
    /\ TypeOf(types, "flag") = "boolean"
    /\ TypeOf(types, "score") = "numeric"
    /\ TypeOf(types, "when") = "text"
    /\ TypeOf(types, "label") = "text"
    /\ Cardinality(Distinct(loaded, "label")) > MAX_CATEGORIES
    /\ 2 * Cardinality(Distinct(loaded, "label")) < Len0(loaded)

\* C12: for the three-row table of the installation test (name Alice, Bob,
\* Charlie; age 25, 30, 35; city three distinct names) infer_types gives
\* name text or categorical, age numeric and city categorical.
C12_Scenario ==
    (pc = "typed" /\ loaded = SampleFrame) =>
        /\ TypeOf(types, "name") \in {"text", "categorical"}
        /\ TypeOf(types, "age") = "numeric"
        /\ TypeOf(types, "city") = "categorical"

\* C12 as the code has it: for that table infer_types gives name text, age
\* numeric and city text, three distinct values on three rows being no
\* fewer than half the rows.
C12_ScenarioAsCoded ==
    (pc = "typed" /\ loaded = SampleFrame) =>
        /\ types = << [col |-> "name", t |-> "text"],
                      [col |-> "age",  t |-> "numeric"],
                      [col |-> "city", t |-> "text"] >>
        /\ NUnique(loaded, "city") = 3
        /\ Len0(loaded) = 3

\* C12 witness: the types of the three-row table have been inferred.
C12_Witness ==
    /\ pc = "typed"
    /\ loaded = SampleFrame
    /\ Len(types) = 3

\* a column of a table with rows, every cell of which is missing
AllMissing(d, col) ==
    /\ Len0(d) > 0
    /\ \A i \in 1..Len(d.rows) : IsNa(d.rows[i].cells[col])

\* C13: a column whose cells are all missing is typed by its storage type
\* and not by date parsing: stored as objects it is never datetime, stored
\* as numbers it is numeric.
C13_AllMissing ==
    pc = "typed" =>
        \A c \in 1..Len(types) :
            AllMissing(loaded, types[c].col) =>
                /\ loaded.dtype[types[c].col] = "object" => types[c].t /= "datetime"
                /\ loaded.dtype[types[c].col] \in {"int64", "float64"}
                      => types[c].t = "numeric"

(***************************************************************************)
(* Properties of the session's TypeMap.                                    *)
(***************************************************************************)
\* the map has one entry for each column of the frame and no other entry
KeysAreColumns(tm, d) ==
    /\ \A i \in 1..Len(d.columns) :
          Cardinality({j \in 1..Len(tm) : tm[j].col = d.columns[i]}) = 1
    /\ \A j \in 1..Len(tm) : HasColumn(d, tm[j].col)

\* C14: the map infer_types returns has exactly one entry for each column
\* of the table and none for any other name, and the same holds between the
\* session's map and every frame apply_filters returns.
C14_TypeMapColumns ==
    /\ pc \in {"typed", "filtered"} => KeysAreColumns(types, loaded)
    /\ Returned => KeysAreColumns(types, result.out)

\* C14 witness: a call returned a frame with fewer rows than the table of
\* four columns, one of them numeric.
C14_Witness ==
    /\ Returned
    /\ Len(loaded.columns) = 4
    /\ TypeOf(types, "age") = "numeric"
    /\ Len0(result.out) > 0
    /\ Len0(result.out) < Len0(loaded)

(***************************************************************************)
(* Properties of the dashboard.                                            *)
(***************************************************************************)
Shown == pc = "shown" /\ ~result.raised /\ Len0(loaded) > 0

\* C15: the TypeMap is the one inferred from the loaded table at launch, in
\* every later state; after every change event that returns, the rows, the
\* summaries and the charts shown are those of filtering the whole loaded
\* table with the arguments built from the components' present values, so
\* they depend on the table, that TypeMap and those values, not on earlier
\* events.
C15_HistoryIndependence ==
    /\ pc \in {"ready", "shown"} => types = infer_types(loaded)
    /\ Shown =>
          /\ df = loaded
          /\ args = FilterArgs(widgets.text, widgets.filters, infer_types(loaded))
          /\ result.out = apply_filters(loaded, infer_types(loaded), args).cur
          /\ summaries = summaries_and_figs(result.out, infer_types(loaded), DEFAULT_TOP_K)
          /\ view.info.rows = Len0(result.out)
          /\ view.figs = summaries.figs
          /\ view.csv = ToCsv(result.out)

\* C15 witness: after at least two events (a query is set and a component
\* is off its first value) the dashboard shows some rows of the table and
\* not all.
C15_Witness ==
    /\ Shown
    /\ widgets.text = <<"b","o">>
    /\ widgets.filters /= create_ui_components(loaded, types).filters
    /\ Len0(result.out) > 0
    /\ Len0(result.out) < Len0(loaded)

\* C16: after every change event that returns, apply_filters was given a
\* numeric range for each slider with the slider's bounds, a date range for
\* each date box whose text is 'START to END', and a selection for each
\* dropdown, each under the component's column.
C16_PredicatesPassed ==
    Shown =>
        \A i \in 1..Len(widgets.filters) :
            LET w == widgets.filters[i]
            IN  /\ w.kind = "num" =>
                      \E j \in 1..Len(args.num_ranges) :
                          /\ args.num_ranges[j].col = w.col
                          /\ args.num_ranges[j].lo = Bound(w.num.lo)
                          /\ args.num_ranges[j].hi = Bound(w.num.hi)
                /\ (w.kind = "date" /\ HasTo(w.text)) =>
                      \E j \in 1..Len(args.date_ranges) :
                          /\ args.date_ranges[j].col = w.col
                          /\ args.date_ranges[j].start = SplitTo(w.text).start
                          /\ args.date_ranges[j].end = SplitTo(w.text).end
                /\ w.kind = "cat" =>
                      \E j \in 1..Len(args.cat_selections) :
                          /\ args.cat_selections[j].col = w.col
                          /\ args.cat_selections[j].sel = w.sel

\* C17: when the export button is clicked while the dashboard shows a
\* filtered table, the report states the row count and the summaries of the
\* table shown, and lists the text query in force.
C17_ExportCurrentView ==
    [][(report' /= report /\ Shown) =>
          /\ report'.rows = Len0(result.out)
          /\ report'.summaries = summaries
          /\ widgets.text /= <<>> =>
                (report'.applied.section /\ report'.applied.text_query = widgets.text)]_vars

(***************************************************************************)
(* Properties of summaries_and_figs.  d is the frame that was summarised.  *)
(***************************************************************************)
Summarised == pc = "summarised"

\* the rows of a summary table, or the items of a dict of figures, of a column
RowsOf(table, col) == SelectSeq(table, LAMBDA r : r.Column = col)

FigsOf(figs, col) == SelectSeq(figs, LAMBDA f : f.col = col)

\* the number of rows of d whose cell of the column passes the test
RECURSIVE RowsWhere(_, _, _, _)
RowsWhere(d, col, Test(_), i) ==
    IF i = 0 THEN 0
    ELSE (IF Test(d.rows[i].cells[col]) THEN d.rows[i].count ELSE 0)
         + RowsWhere(d, col, Test, i - 1)

Present(d, col) == RowsWhere(d, col, LAMBDA c : ~IsNa(c), Len(d.rows))

\* the sum of the non-missing values of a numeric column
RECURSIVE Total(_, _, _)
Total(d, col, i) ==
    IF i = 0 THEN 0
    ELSE (IF IsNa(d.rows[i].cells[col]) THEN 0
          ELSE d.rows[i].count * d.rows[i].cells[col].n)
         + Total(d, col, i - 1)

NumericRowOK(d, col, r) ==
    LET vals == {c.n : c \in Distinct(d, col)}
    IN  /\ r.Count = Present(d, col)
        /\ r.Min \in vals /\ \A v \in vals : r.Min <= v
        /\ r.Max \in vals /\ \A v \in vals : r.Max >= v
        /\ r.Mean.den /= 0
        /\ r.Mean.num * Present(d, col) = Total(d, col, Len(d.rows)) * r.Mean.den
        /\ r.Missing.den /= 0
        /\ r.Missing.num * Len0(d) = 100 * (Len0(d) - Present(d, col)) * r.Missing.den

\* C18: of the frame passed to summaries_and_figs, each numeric column with
\* a value has one summary row, with Count the number of values, Min and
\* Max the least and greatest, Mean their sum over their number, Missing%
\* 100 times the missing cells over the rows of that frame, and a chart; a
\* numeric column without a value has no row and no chart.  For the ages
\* 25, 30, 35: count 3, mean 30, min 25, max 35, missing% 0.
C18_NumericSummary ==
    Summarised =>
        /\ \A c \in 1..Len(types) :
              types[c].t = "numeric" =>
                LET col  == types[c].col
                    rows == RowsOf(summaries.numeric_summaries, col)
                    figs == FigsOf(summaries.figs.numeric, col)
                IN  IF Present(result.out, col) > 0
                    THEN /\ Len(rows) = 1
                         /\ NumericRowOK(result.out, col, rows[1])
                         /\ Len(figs) = 1
                    ELSE rows = <<>> /\ figs = <<>>
        /\ result.out = SampleFrame =>
              LET r == RowsOf(summaries.numeric_summaries, "age")[1]
              IN  /\ r.Count = 3
                  /\ r.Mean.num = 30 * r.Mean.den
                  /\ r.Min = 25
                  /\ r.Max = 35
                  /\ r.Missing.num = 0

\* C18 witness: a filter dropped rows, and of the rows kept some have an
\* age and some have none.
C18_Witness ==
    /\ Summarised
    /\ Len0(result.out) < Len0(loaded)
    /\ Present(result.out, "age") > 0
    /\ Present(result.out, "age") < Len0(result.out)
    /\ Len(summaries.numeric_summaries) = 1

\* the labels of a column and the number of rows that hold a label
Labels(d, col) == {c.s : c \in Distinct(d, col)}

Freq(d, col, label) ==
    RowsWhere(d, col, LAMBDA c : c.k = "str" /\ c.s = label, Len(d.rows))

\* the K most frequent labels with their row counts, most frequent first
IsTopK(d, col, top) ==
    /\ \A i \in 1..Len(top) :
          /\ top[i].label \in Labels(d, col)
          /\ top[i].count = Freq(d, col, top[i].label)
    /\ \A i, j \in 1..Len(top) : i /= j => top[i].label /= top[j].label
    /\ \A i \in 1..(Len(top) - 1) : top[i].count >= top[i + 1].count
    /\ \A l \in Labels(d, col) \ {top[i].label : i \in 1..Len(top)} :
          Freq(d, col, l) <= top[Len(top)].count

CategoricalOK(d, col, r, figs) ==
    LET labels == Labels(d, col)
        k == IF Cardinality(labels) < DEFAULT_TOP_K THEN Cardinality(labels)
             ELSE DEFAULT_TOP_K
    IN  /\ r.Unique_Count = Cardinality(labels)
        /\ Cardinality(labels) <= DEFAULT_TOP_K => r.Others_Count = 0
        /\ IF labels = {} THEN figs = <<>>
           ELSE /\ r.Most_Common \in labels
                /\ r.Most_Common_Count = Freq(d, col, r.Most_Common)
                /\ \A l \in labels : Freq(d, col, l) <= r.Most_Common_Count
                /\ Len(figs) = 1
                /\ Len(figs[1].bars) >= k
                /\ IsTopK(d, col, SubSeq(figs[1].bars, 1, k))
                /\ r.Others_Count
                      = Present(d, col) - CountSum(SubSeq(figs[1].bars, 1, k))
                /\ figs[1].bars
                      = IF r.Others_Count > 0
                        THEN Append(SubSeq(figs[1].bars, 1, k),
                                    [label |-> OTHERS, count |-> r.Others_Count])
                        ELSE SubSeq(figs[1].bars, 1, k)

\* C19: each categorical column has one summary row, with Unique_Count the
\* number of distinct values, Most_Common a most frequent value and
\* Most_Common_Count its row count, Others_Count the rows of the values
\* behind the K most frequent (0 when there are at most K values); the
\* chart has the K most frequent values, most frequent first, each with its
\* row count, followed by one 'Others' entry of Others_Count exactly when
\* Others_Count > 0.  K is 20.
C19_CategoricalSummary ==
    Summarised =>
        \A c \in 1..Len(types) :
            types[c].t = "categorical" =>
                LET col  == types[c].col
                    rows == RowsOf(summaries.categorical_summaries, col)
                    figs == FigsOf(summaries.figs.categorical, col)
                IN  /\ Len(rows) = 1
                    /\ CategoricalOK(result.out, col, rows[1], figs)

\* the rows whose date, parsed, is x
RowsOn(d, col, x) ==
    RowsWhere(d, col, LAMBDA c : c.k = "str" /\ ToDatetime(c.s) = x, Len(d.rows))

DatetimeOK(d, col, rows, figs) ==
    LET stamps == {ToDatetime(c.s) : c \in Distinct(d, col)}
    IN  IF \E i \in 1..Len(d.rows) : ~ParsesCell(d.rows[i].cells[col])
        THEN rows = <<>> /\ figs = <<>>
        ELSE IF Present(d, col) = 0
        THEN rows = <<>> /\ figs = <<>>
        ELSE /\ Len(rows) = 1
             /\ rows[1].Total_Records = Present(d, col)
             /\ HasTo(rows[1].Date_Range)
             /\ LET range == SplitTo(rows[1].Date_Range)
                IN  /\ ParsesText(range.start) /\ ParsesText(range.end)
                    /\ ToDatetime(range.start) \in stamps
                    /\ ToDatetime(range.end) \in stamps
                    /\ \A x \in stamps : /\ ToDatetime(range.start) <= x
                                          /\ x <= ToDatetime(range.end)
             /\ Len(figs) = 1
             /\ LET line == figs[1].line
                IN  /\ \A i \in 1..Len(line) :
                          /\ ParsesText(line[i].date)
                          /\ ToDatetime(line[i].date) \in stamps
                          /\ line[i].count = RowsOn(d, col, ToDatetime(line[i].date))
                          /\ line[i].count > 0
                    /\ \A x \in stamps : \E i \in 1..Len(line) : ToDatetime(line[i].date) = x
                    /\ \A i \in 1..(Len(line) - 1) :
                          ToDatetime(line[i].date) < ToDatetime(line[i + 1].date)
                    /\ CountSum(line) = rows[1].Total_Records

\* C20: a datetime column all of whose values parse and that has a value
\* has one summary row, with Total_Records the number of values and the
\* date range from the earliest to the latest date, and a chart with one
\* point for each date that occurs, holding the rows of that date, the
\* dates strictly ascending and the counts adding up to Total_Records; a
\* datetime column with a value that does not parse has no row and no
\* chart.
C20_DatetimeSummary ==
    Summarised =>
        \A c \in 1..Len(types) :
            types[c].t = "datetime" =>
                DatetimeOK(result.out, types[c].col,
                           RowsOf(summaries.datetime_summary, types[c].col),
                           FigsOf(summaries.figs.datetime, types[c].col))

\* C20 witness: the chart of a filtered frame has three dates, which the
\* rows hold in another order than ascending.
C20_Witness ==
    /\ Summarised
    /\ Len0(result.out) < Len0(loaded)
    /\ Len(summaries.figs.datetime) = 1
    /\ Len(summaries.figs.datetime[1].line) = 3
    /\ result.out.rows[1].cells["joined"] = Str(Jan05)
    /\ result.out.rows[2].cells["joined"] = Str(Jan02)

(***************************************************************************)
(* Failures inside summaries_and_figs.                                     *)
(***************************************************************************)
\* the entry's column fails while its statistics are computed
Failing(d, e) ==
    \/ e.t = "numeric" /\ NumericRaises(d, e.col)
    \/ e.t = "categorical" /\ CategoricalRaises(d, e.col)
    \/ e.t = "datetime" /\ \/ ~HasColumn(d, e.col)
                           \/ \E i \in 1..Len(d.rows) : ~Converts(d.rows[i].cells[e.col])

\* the entries whose columns do not fail
Sound(d, tm) == SelectSeq(tm, LAMBDA e : ~Failing(d, e))

\* C21: whatever the type of the column that fails, summaries_and_figs
\* raises nothing, leaves that column out and returns the summaries and
\* charts of all the other columns.
C21_FailureIsolation ==
    pc = "summarised" =>
        /\ ~result.raised
        /\ summaries = summaries_and_figs(df, Sound(df, types), DEFAULT_TOP_K)

\* the TypeMap is the inferred one, but for the columns that hold only
\* missing values
InferredBut(tm, d) ==
    /\ Len(tm) = Len(d.columns)
    /\ \A i \in 1..Len(tm) : tm[i] = infer_types(d)[i] \/ AllMissing(d, tm[i].col)

\* what summaries_and_figs returns for the other columns
Informed(d, tm) ==
    summaries_and_figs(d, SelectSeq(tm, LAMBDA e : ~AllMissing(d, e.col)), DEFAULT_TOP_K)

\* the row of a categorical column that holds only missing values
AllMissingRow(d, col) ==
    [Column |-> col, Unique_Count |-> 0, Most_Common |-> None, Most_Common_Count |-> 0,
     Others_Count |-> 0, Missing |-> Ratio(100 * Len0(d), Len0(d))]

\* C22: for a table with a column of only missing values, whatever type
\* the TypeMap gives that column, summaries_and_figs raises nothing; the
\* column has no numeric and no datetime row and no chart, as a categorical
\* column it has the row of no values (0 distinct, most common None, 100%
\* missing); the other columns are summarised as without it.
C22_AllMissingColumn ==
    (/\ pc = "summarised"
     /\ InferredBut(types, df)
     /\ \E i \in 1..Len(types) : AllMissing(df, types[i].col))
    => /\ ~result.raised
       /\ \A i \in 1..Len(types) :
            AllMissing(df, types[i].col) =>
              /\ RowsOf(summaries.numeric_summaries, types[i].col) = <<>>
              /\ RowsOf(summaries.datetime_summary, types[i].col) = <<>>
              /\ RowsOf(summaries.categorical_summaries, types[i].col)
                   = IF types[i].t = "categorical"
                     THEN << AllMissingRow(df, types[i].col) >> ELSE <<>>
              /\ FigsOf(summaries.figs.numeric, types[i].col) = <<>>
              /\ FigsOf(summaries.figs.categorical, types[i].col) = <<>>
              /\ FigsOf(summaries.figs.datetime, types[i].col) = <<>>
       /\ summaries.numeric_summaries = Informed(df, types).numeric_summaries
       /\ summaries.datetime_summary = Informed(df, types).datetime_summary
       /\ SelectSeq(summaries.categorical_summaries,
                    LAMBDA r : ~AllMissing(df, r.Column))
            = Informed(df, types).categorical_summaries
       /\ summaries.figs = Informed(df, types).figs

\* a table whose names are all missing and typed categorical or numeric,
\* summarised together with its ages
C22_Witness ==
    /\ pc = "summarised"
    /\ ~result.raised
    /\ InferredBut(types, df)
    /\ AllMissing(df, "name")
    /\ TypeOf(types, "name") \in {"categorical", "numeric"}
    /\ RowsOf(summaries.numeric_summaries, "age") /= <<>>

\* no row, or no column
Absent(d) == Len0(d) = 0 \/ d.columns = <<>>

\* C23: a table without rows or without columns is filtered to an empty
\* table, and an empty table, also one that the filters left empty, gets
\* no summary row and no chart at all; nothing is raised.
C23_InputAbsent ==
    /\ (pc \in {"filtered", "summarised"} /\ Absent(df))
           => ~result.raised /\ Absent(result.out)
    /\ (pc = "summarised" /\ Absent(result.out)) => summaries = NoSummaries

\* the TypeMap names a column the table does not have
Malformed(tm, d) == \E i \in 1..Len(tm) : ~HasColumn(d, tm[i].col)

\* C24: with a TypeMap that names a column the table does not have, a call
\* of apply_filters and a call of summaries_and_figs end with an exception,
\* whatever type the entry has and whatever predicates are passed.
C24_MalformedTypeMap ==
    (pc \in {"filtered", "summarised"} /\ Malformed(types, df)) => result.raised

(***************************************************************************)
(* Requests in flight together.                                            *)
(***************************************************************************)
\* what request r returns when it is the only one
Alone(r) == update_dashboard(widgets[r].text, widgets[r].filters, loaded, types)

\* C25: however the steps of the requests interleave, a request that has
\* returned has returned what the same call returns alone, one that ended
\* with an exception ends so alone, the arguments, the filtered frame and
\* the summaries a request holds are those of its own values only, and df
\* and types stay the table loaded and its inferred types.
C25_NoInterference ==
    /\ df = loaded
    /\ types = infer_types(loaded)
    /\ \A r \in Reqs :
         /\ pc[r] = "returned" => ~Alone(r).raised /\ view[r] = Alone(r).view
         /\ pc[r] = "raised" => Alone(r).raised
         /\ pc[r] \notin {"idle", "parsed"} /\ Alone(r).called => args[r] = Alone(r).args
         /\ pc[r] \in {"filtered", "summarised"} /\ ~Alone(r).raised
              => result[r].cur = Alone(r).out
         /\ pc[r] = "summarised" => summaries[r] = Alone(r).summaries

\* a request that searched for 'bo' and one that searched for nothing have
\* both returned, with different rows
C25_Witness ==
    /\ pc[1] = "returned"
    /\ pc[2] = "returned"
    /\ widgets[1].text = <<"b","o">>
    /\ widgets[2].text = <<>>
    /\ view[1].info.rows < view[2].info.rows

(***************************************************************************)
(* File names.                                                             *)
(***************************************************************************)
\* the name ends with the ending, letter case apart
EndsWith(t, e) ==
    Len(t) >= Len(e) /\ Lower(SubSeq(t, Len(t) - Len(e) + 1, Len(t))) = e

\* C26: validate_file_path answers True exactly for a file that exists and
\* whose name ends, letter case apart, with .csv, .csv.gz, .xlsx or .xls;
\* so it answers True for an existing *.csv.gz.
C26_SupportedExtension ==
    pc = "validated" =>
        (result.out <=> /\ args.exists
                        /\ \E e \in SUPPORTED_EXTENSIONS : EndsWith(args.file_path, e))

(***************************************************************************)
(* The series of the categorical chart.                                    *)
(***************************************************************************)
\* the bars of the values shown one by one carry the values' own row
\* counts, and all bars together count every non-missing cell once
Conserved(d, col, bars) ==
    LET shown == IF Cardinality(Labels(d, col)) < DEFAULT_TOP_K
                 THEN Cardinality(Labels(d, col)) ELSE DEFAULT_TOP_K
    IN  /\ \A i \in 1..Len(bars) :
              i <= shown => bars[i].count = Freq(d, col, bars[i].label)
        /\ CountSum(bars) = Present(d, col)

\* C27: in the chart of every categorical column each value shown on its
\* own has its own frequency, and the bars, 'Others' included, add up to
\* the number of non-missing cells of the column, also when 'Others' is
\* one of the column's values.
C27_ChartConservation ==
    Summarised =>
        \A c \in 1..Len(types) :
            types[c].t = "categorical" =>
                \A f \in Range(FigsOf(summaries.figs.categorical, types[c].col)) :
                    Conserved(result.out, types[c].col, f.bars)

(***************************************************************************)
(* Filtering twice.                                                        *)
(***************************************************************************)
\* C28: apply_filters applied, with the same TypeMap and predicates, to a
\* table it returned raises nothing and returns that table unchanged, also
\* after a text search that kept rows whose labels are not 0..n-1 and with
\* a date range among the predicates.
C28_Idempotent ==
    pc = "refiltered" => ~result.raised /\ result.out = df

(***************************************************************************)
(* A text search without a column to search.                               *)
(***************************************************************************)
NoTextColumns(tm) == ColsOfType(tm, {"text", "categorical"}) = <<>>

\* C29: when no column is typed text or categorical, a non-blank text
\* query changes nothing: the call returns what it returns without the
\* query, and all rows when the query is the only predicate.
C29_NoTextColumns ==
    (pc = "filtered" /\ NonBlank(args.text_query) /\ NoTextColumns(types))
    => /\ SameAs(apply_filters(loaded, types, [args EXCEPT !.text_query = <<>>]))
       /\ (OnlyText => ~result.raised /\ result.out = loaded)

\* a table with rows and no text or categorical column was searched
C29_Witness ==
    /\ pc = "filtered"
    /\ NonBlank(args.text_query)
    /\ OnlyText
    /\ NoTextColumns(types)
    /\ Len0(loaded) > 0
    /\ result.out = loaded

====
